---- MODULE Spec2Model ----
(***************************************************************************)
(* github-router: the Anthropic-messages translation route.                *)
(*                                                                         *)
(* Spec: the response path of handleCompletion. ResolverSpec: the model    *)
(* resolver against a catalog. RequestSpec: the handlers of the routes from *)
(* the rate limiter to the backend call. ErrorSpec: a failed backend call  *)
(* and forwardError. PairSpec: two requests in flight on one process.      *)
(* SearchSpec: throttleSearch under concurrent callers. LaunchSpec:        *)
(* launchChild from the spawn of the child to process.exit. HungCloseSpec: *)
(* the launcher when server.close never settles, under fair scheduling of  *)
(* the timer. ServeSpec: the bind attempts of setupAndServe.               *)
(*                                                                         *)
(* handleCompletion (routes/messages/handler.ts) sends the translated      *)
(* request to the backend and either translates the complete response or   *)
(* runs the streaming loop: for every raw server-sent event of the backend *)
(* it parses the chunk, translates it with the per-connection stream state *)
(* and writes the resulting events to the client.                          *)
(***************************************************************************)
EXTENDS Integers, Sequences, FiniteSets, TLC

\* Raw backend events one streaming connection reads at most.
MaxChunks == 4

\* JavaScript null and undefined.
Null == "null"
Undefined == "undefined"

\* The model string the client sends, and the names the backend may report
\* for it (its display name, or the string itself).
ClientModels == {"claude-opus-4-6"}
BackendModels == {"Claude Opus 4.6", "claude-opus-4-6"}

\* The backend's per-call slot indices (tool_calls[].index).
Slots == {0, 1}

\* The decimal digits, as characters.
Digits == {"0", "1", "2", "3", "4", "5", "6", "7", "8", "9"}

VARIABLES
  pc,              \* where handleCompletion is: request, replied, streaming, done, aborted, closed
  clientModel,     \* anthropicPayload.model
  backendModel,    \* the model name the backend puts in its response or chunks
  backendResponse, \* the complete backend response (non-streaming path)
  response,        \* the body handed to c.json (non-streaming path)
  streamState,     \* AnthropicStreamState of the open connection
  received,        \* raw events the for-await loop has read, in order
  written,         \* SSE messages written to the client, each with the ordinal
                   \* of the raw event whose loop iteration wrote it
  requested,       \* the model string handed to normalizeCopilotModelName
  modelIds,        \* state.models.data ids, in catalog order
  resolved,        \* what normalizeCopilotModelName returned, and by which return
  route,           \* the route a request came in on
  stage,           \* where that request's handler is
  limiter,         \* state.rateLimitSeconds, rateLimitWait, lastRequestTimestamp
  payload,         \* the request body as the client sent it
  outgoing,        \* the body the handler has prepared for the backend call
  forwarded,       \* the body the backend call has sent
  reply,           \* the HTTP status the handler has answered with, 0 for none yet
  manualApprove,   \* state.manualApprove
  search,          \* what became of the request's web search: none, skipped, succeeded, failed
  performed,       \* the checks, prompts and upstream calls the handler has made, in order
  backendCall,     \* a backend call of a route: its service, state.copilotToken, its stage
  upstream,        \* the status and body the backend has answered that call with
  thrown,          \* the error that has reached the route's catch
  answer,          \* the status and body the route has answered the client with
  shared,          \* state.rateLimitSeconds, rateLimitWait, lastRequestTimestamp,
                   \* as two requests in flight see them
  inflight,        \* those two requests: stage, reply, and the stream of each
  now,             \* Date.now(), in ticks
  searchTimestamps, \* the module variable of the web search service
  searchers,       \* the calls of searchWeb: where each is, and when its sleep ends
  sentAt,          \* the times at which searches went upstream
  child,           \* the child process: its executable; none, starting, running, exited
  cleaned,         \* launchChild's flag of the same name
  exiting,         \* launchChild's flag of the same name
  closing,         \* the promise of server.close(true): none, pending, settled, rejected
  timeout,         \* cleanup's 5-second timer: none, armed, cleared, fired
  kills,           \* calls of child.kill()
  closes,          \* calls of server.close(true)
  thens,           \* the exit codes of the cleanup().then(exit) callbacks not yet run,
                   \* each with whether its cleanup() promise has resolved
  delivered,       \* the events the launcher process has received, in order
  exitCode,        \* the code process.exit has ended the process with, or none
  binding          \* setupAndServe's bind loop: the port, the attempts, the errors, the outcome

\* The variables of an open response.
responseVars == <<pc, clientModel, backendModel, backendResponse, response,
                  streamState, received, written>>

\* The variables of the model resolver.
resolverVars == <<requested, modelIds, resolved>>

\* The variables of a request on its way to the backend.
requestVars == <<route, stage, limiter, payload, outgoing, forwarded, reply,
                 manualApprove, search, performed>>

\* The variables of a backend call that fails.
errorVars == <<backendCall, upstream, thrown, answer>>

\* The variables of two requests in flight at once.
pairVars == <<shared, inflight>>

\* The variables of the web search throttle.
searchVars == <<now, searchTimestamps, searchers, sentAt>>

\* The variables of the launcher.
launchVars == <<child, cleaned, exiting, closing, timeout, kills, closes, thens,
                delivered, exitCode>>

\* The variables of the server's start.
serveVars == <<binding>>

serviceVars == <<errorVars, pairVars, searchVars, launchVars, serveVars>>

vars == <<responseVars, resolverVars, requestVars, serviceVars>>

----------------------------------------------------------------------------
\* Sequence helpers.

Last(s) == s[Len(s)]

RECURSIVE Concat(_)
Concat(ss) == IF ss = <<>> THEN "" ELSE Head(ss) \o Concat(Tail(ss))


----------------------------------------------------------------------------
\* Backend wire shapes (ChatCompletionChunk, ChatCompletionResponse).

NoUsage == [present |-> FALSE, prompt_tokens |-> 0, completion_tokens |-> 0]
Usage(p, c) == [present |-> TRUE, prompt_tokens |-> p, completion_tokens |-> c]

\* One entry of delta.tool_calls; "" stands for an absent id, name or arguments.
ToolCallDelta(slot, id, name, arguments) ==
  [index |-> slot, id |-> id, name |-> name, arguments |-> arguments]

\* choices[0] of a chunk: delta.role, delta.content, delta.tool_calls, finish_reason.
Delta(role, content, toolCalls, finish, usage) ==
  [role |-> role, content |-> content, tool_calls |-> toolCalls,
   finish_reason |-> finish, usage |-> usage]

RoleChunk    == Delta(TRUE, "", <<>>, Null, Usage(10, 0))
HelloChunk   == Delta(FALSE, "Hello", <<>>, Null, NoUsage)
ThereChunk   == Delta(FALSE, " there", <<>>, Null, NoUsage)
ArgsOnly0    == Delta(FALSE, "", <<ToolCallDelta(0, "", "", "{\"loc")>>, Null, NoUsage)
IdName0      == Delta(FALSE, "",
                      <<ToolCallDelta(0, "call_early", "get_weather", "ation\": \"Oslo\"}")>>,
                      Null, NoUsage)
IdName1      == Delta(FALSE, "", <<ToolCallDelta(1, "call_b", "get_time", "{}")>>, Null, NoUsage)
StopChunk    == Delta(FALSE, "", <<>>, "stop", Usage(10, 5))
ToolsChunk   == Delta(FALSE, "", <<>>, "tool_calls", NoUsage)

\* The chunk bodies the backend may send on a stream.
ChunkMenu == {RoleChunk, HelloChunk, ThereChunk, ArgsOnly0, IdName0, IdName1,
              StopChunk, ToolsChunk}

NoDelta == Delta(FALSE, "", <<>>, Null, NoUsage)

\* A raw server-sent event: its data is the sentinel, empty, unparseable or a chunk.
RawEvent(kind, model, delta) == [kind |-> kind, model |-> model, chunk |-> delta]

----------------------------------------------------------------------------
\* Stop Reason Mapper (routes/messages/utils.ts).

stopReasonMap ==
  [r \in {"stop", "length", "tool_calls", "content_filter"} |->
     CASE r = "stop"           -> "end_turn"
       [] r = "length"         -> "max_tokens"
       [] r = "tool_calls"     -> "tool_use"
       [] r = "content_filter" -> "end_turn"]

\* A mapper with the length and stop entries exchanged.
mapStopReasonSwapped(finishReason) ==
  IF finishReason = Null THEN Null
  ELSE IF finishReason = "stop" THEN "max_tokens"
  ELSE IF finishReason = "length" THEN "end_turn"
  ELSE IF finishReason \in DOMAIN stopReasonMap THEN stopReasonMap[finishReason]
  ELSE Undefined

\* A mapper without the early return for null.
mapStopReasonNoNull(finishReason) ==
  IF finishReason \in DOMAIN stopReasonMap THEN stopReasonMap[finishReason]
  ELSE "end_turn"

\* if (finishReason === null) return null; return stopReasonMap[finishReason]
\* (an object lookup with a key the map lacks yields undefined).
mapOpenAIStopReasonToAnthropic(finishReason) ==
  IF finishReason = Null THEN Null
  ELSE IF finishReason \in DOMAIN stopReasonMap THEN stopReasonMap[finishReason]
  ELSE Undefined

----------------------------------------------------------------------------
\* Stream events of the message protocol. Every event is a record of the same
\* shape; the fields an event kind does not carry keep their blank value.

BlankEvent ==
  [type |-> "", index |-> -1, block |-> "", id |-> "", name |-> "",
   delta |-> "", text |-> "", model |-> "", stop_reason |-> Null,
   input_tokens |-> 0, output_tokens |-> 0]

MessageStart(model, usage) ==
  [BlankEvent EXCEPT !.type = "message_start", !.model = model,
                     !.input_tokens = usage.prompt_tokens, !.output_tokens = 0]

ContentBlockStartText(index) ==
  [BlankEvent EXCEPT !.type = "content_block_start", !.index = index, !.block = "text"]

ContentBlockStartTool(index, id, name) ==
  [BlankEvent EXCEPT !.type = "content_block_start", !.index = index,
                     !.block = "tool_use", !.id = id, !.name = name]

TextDelta(index, text) ==
  [BlankEvent EXCEPT !.type = "content_block_delta", !.index = index,
                     !.delta = "text_delta", !.text = text]

InputJsonDelta(index, partialJson) ==
  [BlankEvent EXCEPT !.type = "content_block_delta", !.index = index,
                     !.delta = "input_json_delta", !.text = partialJson]

ContentBlockStop(index) ==
  [BlankEvent EXCEPT !.type = "content_block_stop", !.index = index]

MessageDelta(stopReason, usage) ==
  [BlankEvent EXCEPT !.type = "message_delta", !.stop_reason = stopReason,
                     !.input_tokens = usage.prompt_tokens,
                     !.output_tokens = usage.completion_tokens]

MessageStop == [BlankEvent EXCEPT !.type = "message_stop"]

----------------------------------------------------------------------------
\* Stream State (AnthropicStreamState), one per streaming connection.

NoToolCall == [seen |-> FALSE, id |-> "", name |-> "", anthropicBlockIndex |-> -1]

\* The state the streaming callback creates before its loop.
NewStreamState ==
  [messageStartSent    |-> FALSE,
   contentBlockIndex   |-> 0,
   contentBlockOpen    |-> FALSE,
   contentBlockKind    |-> "",
   toolCalls           |-> [s \in Slots |-> NoToolCall],
   pendingToolCallArgs |-> [s \in Slots |-> <<>>]]

----------------------------------------------------------------------------
\* Streaming Event Translator: translateChunkToAnthropicEvents(chunk, state,
\* originalModel). Each step takes and returns acc = [state, events]: the
\* stream state so far and the events this chunk has produced so far.

\* message_start, once per connection, carrying the model string passed in.
MessageStartStep(chunk, originalModel, acc) ==
  IF acc.state.messageStartSent THEN acc
  ELSE [state  |-> [acc.state EXCEPT !.messageStartSent = TRUE],
        events |-> Append(acc.events, MessageStart(originalModel, chunk.usage))]

\* Close the open block: content_block_stop, then the next index.
CloseOpenBlock(acc) ==
  [state  |-> [acc.state EXCEPT !.contentBlockIndex = @ + 1,
                                !.contentBlockOpen = FALSE,
                                !.contentBlockKind = ""],
   events |-> Append(acc.events, ContentBlockStop(acc.state.contentBlockIndex))]

\* delta.content: open a text block when none is open (closing a block of
\* another kind first), then the text delta.
TextStep(chunk, acc) ==
  IF chunk.content = "" THEN acc
  ELSE
    LET a1 == IF acc.state.contentBlockOpen /\ acc.state.contentBlockKind # "text"
              THEN CloseOpenBlock(acc) ELSE acc
        a2 == IF a1.state.contentBlockOpen THEN a1
              ELSE [state  |-> [a1.state EXCEPT !.contentBlockOpen = TRUE,
                                                !.contentBlockKind = "text"],
                    events |-> Append(a1.events,
                                      ContentBlockStartText(a1.state.contentBlockIndex))]
    IN [state  |-> a2.state,
        events |-> Append(a2.events, TextDelta(a2.state.contentBlockIndex, chunk.content))]

\* A slot not seen before whose fragment carries id and name: a new tool_use
\* block, then the buffered fragments in the order they were buffered.
OpenToolBlock(tc, acc) ==
  LET a1  == IF acc.state.contentBlockOpen THEN CloseOpenBlock(acc) ELSE acc
      idx == a1.state.contentBlockIndex
      buf == a1.state.pendingToolCallArgs[tc.index]
  IN [state  |-> [a1.state EXCEPT
                    !.contentBlockOpen = TRUE,
                    !.contentBlockKind = "tool_use",
                    !.toolCalls[tc.index] =
                       [seen |-> TRUE, id |-> tc.id, name |-> tc.name,
                        anthropicBlockIndex |-> idx],
                    !.pendingToolCallArgs[tc.index] = <<>>],
      events |-> a1.events \o <<ContentBlockStartTool(idx, tc.id, tc.name)>>
                           \o [i \in 1..Len(buf) |-> InputJsonDelta(idx, buf[i])]]

\* One entry of delta.tool_calls.
ToolCallStep(tc, acc) ==
  LET seen == acc.state.toolCalls[tc.index].seen
      a1   == IF ~seen /\ tc.id # "" /\ tc.name # "" THEN OpenToolBlock(tc, acc) ELSE acc
  IN IF tc.arguments = "" THEN a1
     ELSE IF a1.state.toolCalls[tc.index].seen
     THEN [state  |-> a1.state,
           events |-> Append(a1.events,
                             InputJsonDelta(a1.state.toolCalls[tc.index].anthropicBlockIndex,
                                            tc.arguments))]
     ELSE [state  |-> [a1.state EXCEPT !.pendingToolCallArgs[tc.index] =
                                          Append(@, tc.arguments)],
           events |-> a1.events]

RECURSIVE ToolCallsStep(_, _)
ToolCallsStep(toolCalls, acc) ==
  IF toolCalls = <<>> THEN acc
  ELSE ToolCallsStep(Tail(toolCalls), ToolCallStep(Head(toolCalls), acc))

\* finish_reason: close the open block, message_delta with the mapped reason
\* and this chunk's usage, message_stop.
FinishStep(chunk, acc) ==
  IF chunk.finish_reason = Null THEN acc
  ELSE
    LET a1 == IF acc.state.contentBlockOpen
              THEN [state  |-> [acc.state EXCEPT !.contentBlockOpen = FALSE,
                                                 !.contentBlockKind = ""],
                    events |-> Append(acc.events,
                                      ContentBlockStop(acc.state.contentBlockIndex))]
              ELSE acc
    IN [state  |-> a1.state,
        events |-> a1.events \o
                   <<MessageDelta(mapOpenAIStopReasonToAnthropic(chunk.finish_reason),
                                  chunk.usage),
                     MessageStop>>]

translateChunkToAnthropicEvents(chunk, state, originalModel) ==
  FinishStep(chunk,
    ToolCallsStep(chunk.tool_calls,
      TextStep(chunk,
        MessageStartStep(chunk, originalModel,
                         [state |-> state, events |-> <<>>]))))

----------------------------------------------------------------------------
\* Response Translator (non-streaming): translateToAnthropic(response, originalModel).

\* A complete backend response: choices[0].message and finish_reason, usage.
BackendResponse(content, toolCalls, finish) ==
  [content |-> content, tool_calls |-> toolCalls, finish_reason |-> finish,
   usage |-> Usage(9, 12)]

\* Argument strings of a tool call, as the sequences of their characters.
Quote == <<"\"">>
Backslash == <<"\\">>
Quoted(chars) == Quote \o chars \o Quote
ObjectOf(key, value) == <<"{">> \o Quoted(key) \o <<":">> \o Quoted(value) \o <<"}">>

EmptyArguments == <<>>
EmptyObjectArguments == <<"{", "}">>
LocationArguments == ObjectOf(<<"l">>, <<"N", "Y", "C">>)
\* {"p":"C:\T"}: a backslash that starts no escape sequence.
PathArguments == ObjectOf(<<"p">>, <<"C", ":">> \o Backslash \o <<"T">>)
\* {"p": and nothing more.
TruncatedArguments == <<"{">> \o Quoted(<<"p">>) \o <<":">>
\* {"p":"a\"}: the backslash escapes the closing quote.
UnterminatedArguments == ObjectOf(<<"p">>, <<"a">> \o Backslash)

ArgumentStrings ==
  {EmptyArguments, EmptyObjectArguments, LocationArguments, PathArguments,
   TruncatedArguments, UnterminatedArguments}

ToolCall(id, name, arguments) == [id |-> id, name |-> name, arguments |-> arguments]

WeatherCall == ToolCall("call_abc", "get_current_weather", LocationArguments)

\* The characters that may follow a backslash inside a JSON string, and the
\* characters they stand for.
SimpleEscapes == {"\"", "\\", "/", "b", "f", "n", "r", "t"}

Unescaped(c) ==
  CASE c = "b" -> "<BS>"
    [] c = "f" -> "<FF>"
    [] c = "n" -> "<LF>"
    [] c = "r" -> "<CR>"
    [] c = "t" -> "<TAB>"
    [] OTHER   -> c

HexDigits == Digits \cup {"a", "b", "c", "d", "e", "f", "A", "B", "C", "D", "E", "F"}

NoScan == [ok |-> FALSE, value |-> <<>>, next |-> 0]

\* The JSON string whose opening quote is before position i of s: its value
\* and the position after its closing quote.
RECURSIVE ScanString(_, _, _)
ScanString(s, i, acc) ==
  IF i > Len(s) THEN NoScan
  ELSE IF s[i] = "\"" THEN [ok |-> TRUE, value |-> acc, next |-> i + 1]
  ELSE IF s[i] = "\\"
    THEN IF i + 1 <= Len(s) /\ s[i + 1] \in SimpleEscapes
           THEN ScanString(s, i + 2, Append(acc, Unescaped(s[i + 1])))
         ELSE IF /\ i + 5 <= Len(s)
                 /\ s[i + 1] = "u"
                 /\ \A k \in (i + 2)..(i + 5) : s[k] \in HexDigits
           THEN ScanString(s, i + 6,
                           Append(acc, "U+" \o s[i + 2] \o s[i + 3] \o s[i + 4] \o s[i + 5]))
         ELSE NoScan
  ELSE ScanString(s, i + 1, Append(acc, s[i]))

\* An input mapping: its entries in order.
EmptyMapping == <<>>
Mapping(key, value) == <<[key |-> key, value |-> value]>>

NoParse == [ok |-> FALSE, value |-> EmptyMapping]

\* JSON.parse on an argument string: an object without members or with one
\* string member; anything else that these strings can hold is a syntax error.
JSONparse(s) ==
  IF s = <<"{", "}">> THEN [ok |-> TRUE, value |-> EmptyMapping]
  ELSE IF Len(s) >= 2 /\ s[1] = "{" /\ s[2] = "\""
    THEN LET k == ScanString(s, 3, <<>>)
         IN IF k.ok /\ k.next + 1 <= Len(s) /\ s[k.next] = ":" /\ s[k.next + 1] = "\""
              THEN LET v == ScanString(s, k.next + 2, <<>>)
                   IN IF v.ok /\ v.next = Len(s) /\ s[v.next] = "}"
                        THEN [ok |-> TRUE, value |-> Mapping(k.value, v.value)]
                      ELSE NoParse
            ELSE NoParse
  ELSE NoParse

\* Backslash repair: every backslash that does not start an escape sequence
\* is doubled.
RECURSIVE escapeBackslashes(_)
escapeBackslashes(s) ==
  IF s = <<>> THEN <<>>
  ELSE IF Head(s) = "\\"
    THEN IF Len(s) >= 2 /\ s[2] \in SimpleEscapes \cup {"u"}
           THEN <<s[1], s[2]>> \o escapeBackslashes(SubSeq(s, 3, Len(s)))
         ELSE <<"\\", "\\">> \o escapeBackslashes(Tail(s))
  ELSE <<Head(s)>> \o escapeBackslashes(Tail(s))

\* The input mapping of a tool call: empty for an empty string, the parsed
\* string, the parsed repaired string, or empty when that fails too.
parseArguments(arguments) ==
  IF arguments = <<>> THEN EmptyMapping
  ELSE IF JSONparse(arguments).ok THEN JSONparse(arguments).value
  ELSE IF JSONparse(escapeBackslashes(arguments)).ok
    THEN JSONparse(escapeBackslashes(arguments)).value
  ELSE EmptyMapping

\* The finish reasons of the mapper's parameter type, and one the type does not
\* list (the backend's legacy function_call).
KnownFinishReasons == {"stop", "length", "tool_calls", "content_filter", Null}
FinishReasons == KnownFinishReasons \cup {"function_call"}

\* The complete responses the backend may send.
BackendResponses ==
  {BackendResponse(c, t, f) :
     c \in {"", "Hello!"},
     t \in {<<>>} \cup {<<[WeatherCall EXCEPT !.arguments = a]>> : a \in ArgumentStrings},
     f \in FinishReasons}

NoBackendResponse == BackendResponse("", <<>>, Null)

NoResponse ==
  [present |-> FALSE, model |-> "", content |-> <<>>, stop_reason |-> Null,
   input_tokens |-> 0, output_tokens |-> 0]

TextBlock(text) ==
  [type |-> "text", text |-> text, id |-> "", name |-> "", input |-> EmptyMapping]
ToolUseBlock(id, name, input) ==
  [type |-> "tool_use", text |-> "", id |-> id, name |-> name, input |-> input]

translateToAnthropic(resp, originalModel) ==
  [present       |-> TRUE,
   model         |-> originalModel,
   content       |-> (IF resp.content = "" THEN <<>> ELSE <<TextBlock(resp.content)>>)
                     \o [i \in 1..Len(resp.tool_calls) |->
                           ToolUseBlock(resp.tool_calls[i].id, resp.tool_calls[i].name,
                                        parseArguments(resp.tool_calls[i].arguments))],
   stop_reason   |-> mapOpenAIStopReasonToAnthropic(resp.finish_reason),
   input_tokens  |-> resp.usage.prompt_tokens,
   output_tokens |-> resp.usage.completion_tokens]

----------------------------------------------------------------------------
\* Model Identifier Resolver: normalizeCopilotModelName (routes/messages/utils.ts).
\* A model string is the sequence of its characters.

Dash == <<"-">>
claude == <<"c", "l", "a", "u", "d", "e">>
opus == <<"o", "p", "u", "s">>
sonnet == <<"s", "o", "n", "n", "e", "t">>
haiku == <<"h", "a", "i", "k", "u">>
gpt4o == <<"g", "p", "t", "-", "4", "o">>
llama == <<"l", "l", "a", "m", "a", "-", "3">>
Date0514 == <<"2", "0", "2", "5", "0", "5", "1", "4">>
Date0929 == <<"2", "0", "2", "5", "0", "9", "2", "9">>
OneM == <<"-", "1", "m">>
Fast == <<"-", "f", "a", "s", "t">>

\* family, version components and suffix put together.
Claude(family, version) == claude \o Dash \o family \o Dash \o version

\* Catalog identifiers.
ClaudeOpus46 == Claude(opus, <<"4", ".", "6">>)
ClaudeOpus46Dash == Claude(opus, <<"4", "-", "6">>)
ClaudeOpus461m == ClaudeOpus46 \o OneM
ClaudeSonnet4 == Claude(sonnet, <<"4">>)
ClaudeSonnet42 == Claude(sonnet, <<"4", ".", "2">>)
ClaudeSonnet45 == Claude(sonnet, <<"4", ".", "5">>)
ClaudeSonnet4Dated == ClaudeSonnet4 \o Dash \o Date0514
ClaudeOpus4 == Claude(opus, <<"4">>)

\* The identifiers a catalog may list, in the order it lists them.
KnownIds ==
  <<ClaudeOpus461m, ClaudeOpus46, ClaudeOpus46Dash, ClaudeSonnet4,
    ClaudeSonnet42, ClaudeSonnet45, ClaudeSonnet4Dated, gpt4o, ClaudeOpus4>>

\* Identifiers one catalog lists at most.
MaxCatalog == 3

RECURSIVE Listed(_, _)
Listed(ids, keep) ==
  IF ids = <<>> THEN <<>>
  ELSE (IF Len(KnownIds) - Len(ids) + 1 \in keep THEN <<Head(ids)>> ELSE <<>>)
       \o Listed(Tail(ids), keep)

\* state.models?.data.map((m) => m.id) ?? []: no catalog loaded gives [].
Catalogs ==
  {Listed(KnownIds, keep) :
     keep \in {k \in SUBSET (1..Len(KnownIds)) : Cardinality(k) <= MaxCatalog}}

\* The model strings clients send.
RequestedModels ==
  {ClaudeOpus46,
   ClaudeOpus46Dash,
   ClaudeOpus46Dash \o OneM,
   ClaudeOpus46 \o Fast,
   ClaudeOpus46 \o <<"-", "x">>,
   ClaudeSonnet4Dated,
   Claude(sonnet, <<"4", "-", "5">>) \o Dash \o Date0929,
   Claude(haiku, <<"4", "-", "5">>),
   Claude(sonnet, <<"4", "-", "5">>),
   claude \o <<"-", "u", "n", "k", "n", "o", "w", "n", "-", "9", "9">>,
   gpt4o,
   gpt4o \o Dash \o Date0514,
   llama}

StartsWith(s, prefix) ==
  Len(prefix) <= Len(s) /\ SubSeq(s, 1, Len(prefix)) = prefix

EndsWith(s, suffix) ==
  Len(suffix) <= Len(s) /\ SubSeq(s, Len(s) - Len(suffix) + 1, Len(s)) = suffix

\* The length of the run of digits of s that starts at position i.
RECURSIVE DigitRun(_, _)
DigitRun(s, i) ==
  IF i <= Len(s) /\ s[i] \in Digits THEN 1 + DigitRun(s, i + 1) ELSE 0

\* model.replace(/^(claude-(?:opus|sonnet|haiku)-\d+)-(\d+)/, "$1.$2"): after
\* the family, the whole run of digits, a dash and at least one digit; the dash
\* becomes a dot.
dotConverted(model) ==
  LET heads == {claude \o Dash \o f \o Dash : f \in {opus, sonnet, haiku}}
      hit == {h \in heads : StartsWith(model, h)}
  IN IF hit = {} THEN model
     ELSE LET k == Len(CHOOSE h \in hit : TRUE)
              n == DigitRun(model, k + 1)
              at == k + n + 1
          IN IF /\ n >= 1
                /\ at + 1 <= Len(model)
                /\ model[at] = "-"
                /\ model[at + 1] \in Digits
             THEN [model EXCEPT ![at] = "."]
             ELSE model

\* s.replace(/-\d{8}$/, "")
withoutDate(s) ==
  IF /\ Len(s) >= 9
     /\ s[Len(s) - 8] = "-"
     /\ \A i \in (Len(s) - 7)..Len(s) : s[i] \in Digits
  THEN SubSeq(s, 1, Len(s) - 9)
  ELSE s

\* s.replace(/-(1m|fast)$/, "")
withoutVariant(s) ==
  IF EndsWith(s, OneM) THEN SubSeq(s, 1, Len(s) - Len(OneM))
  ELSE IF EndsWith(s, Fast) THEN SubSeq(s, 1, Len(s) - Len(Fast))
  ELSE s

\* A prefix tier that takes the first catalog member that is a prefix.
candidatesFirstFound(ids, work) ==
  LET IsPrefix(id) == StartsWith(work, id)
      found == SelectSeq(ids, IsPrefix)
  IN IF found = <<>> THEN <<>> ELSE <<found[1]>>

\* ids.filter((id) => work.startsWith(id)).sort((a, b) => b.length - a.length):
\* the sort is stable, so the first of the longest comes first.
candidates(ids, work) ==
  LET IsPrefix(id) == StartsWith(work, id)
      found == SelectSeq(ids, IsPrefix)
      longest == {i \in 1..Len(found) :
                    \A j \in 1..Len(found) : Len(found[j]) <= Len(found[i])}
  IN IF found = <<>> THEN <<>>
     ELSE <<found[CHOOSE i \in longest : \A j \in longest : i <= j]>>

Member(ids, id) == \E i \in 1..Len(ids) : ids[i] = id

Resolution(id, tier) == [id |-> id, tier |-> tier]

NotResolved == Resolution(<<>>, "none")

\* A resolver that strips the variant suffix before it looks up the
\* dot-converted string.
normalizeVariantFirst(model, ids) ==
  LET dot == dotConverted(model)
      undated == withoutDate(dot)
      plain == withoutVariant(undated)
      found == candidates(ids, plain)
  IN IF Member(ids, model) THEN Resolution(model, "exact")
     ELSE IF plain # undated /\ Member(ids, plain) THEN Resolution(plain, "variant")
     ELSE IF dot # model /\ Member(ids, dot) THEN Resolution(dot, "dot")
     ELSE IF undated # dot /\ Member(ids, undated) THEN Resolution(undated, "date")
     ELSE IF found # <<>> THEN Resolution(found[1], "prefix")
     ELSE IF StartsWith(model, claude) THEN Resolution(ClaudeOpus46, "fallback")
     ELSE Resolution(model, "passthrough")

\* A resolver that passes a Claude string through when nothing matched.
normalizeWithoutFallback(model, ids) ==
  LET dot == dotConverted(model)
      undated == withoutDate(dot)
      plain == withoutVariant(undated)
      found == candidates(ids, plain)
  IN IF Member(ids, model) THEN Resolution(model, "exact")
     ELSE IF dot # model /\ Member(ids, dot) THEN Resolution(dot, "dot")
     ELSE IF undated # dot /\ Member(ids, undated) THEN Resolution(undated, "date")
     ELSE IF plain # undated /\ Member(ids, plain) THEN Resolution(plain, "variant")
     ELSE IF found # <<>> THEN Resolution(found[1], "prefix")
     ELSE Resolution(model, "passthrough")

\* A resolver without the dash-to-dot tier.
normalizeWithoutDot(model, ids) ==
  LET undated == withoutDate(model)
      plain == withoutVariant(undated)
      found == candidates(ids, plain)
  IN IF Member(ids, model) THEN Resolution(model, "exact")
     ELSE IF undated # model /\ Member(ids, undated) THEN Resolution(undated, "date")
     ELSE IF plain # undated /\ Member(ids, plain) THEN Resolution(plain, "variant")
     ELSE IF found # <<>> THEN Resolution(found[1], "prefix")
     ELSE IF StartsWith(model, claude) THEN Resolution(ClaudeOpus46, "fallback")
     ELSE Resolution(model, "passthrough")

\* A resolver whose date tier returns the undated string without looking it up.
normalizeUncheckedDate(model, ids) ==
  LET dot == dotConverted(model)
      undated == withoutDate(dot)
      plain == withoutVariant(undated)
  IN IF Member(ids, model) THEN Resolution(model, "exact")
     ELSE IF dot # model /\ Member(ids, dot) THEN Resolution(dot, "dot")
     ELSE IF undated # dot THEN Resolution(undated, "date")
     ELSE IF plain # undated /\ Member(ids, plain) THEN Resolution(plain, "variant")
     ELSE IF candidates(ids, plain) # <<>>
       THEN Resolution(candidates(ids, plain)[1], "prefix")
     ELSE IF StartsWith(model, claude) THEN Resolution(ClaudeOpus46, "fallback")
     ELSE Resolution(model, "passthrough")

\* normalizeCopilotModelName(model): the returned identifier, with the return
\* statement that produced it.
normalizeCopilotModelName(model, ids) ==
  LET dot == dotConverted(model)
      undated == withoutDate(dot)
      plain == withoutVariant(undated)
      found == candidates(ids, plain)
  IN IF Member(ids, model) THEN Resolution(model, "exact")
     ELSE IF dot # model /\ Member(ids, dot) THEN Resolution(dot, "dot")
     ELSE IF undated # dot /\ Member(ids, undated) THEN Resolution(undated, "date")
     ELSE IF plain # undated /\ Member(ids, plain) THEN Resolution(plain, "variant")
     ELSE IF found # <<>> THEN Resolution(found[1], "prefix")
     ELSE IF StartsWith(model, claude) THEN Resolution(ClaudeOpus46, "fallback")
     ELSE Resolution(model, "passthrough")

\* No resolution is under way.
ResolverIdle ==
  /\ requested = <<>>
  /\ modelIds = <<>>
  /\ resolved = NotResolved

----------------------------------------------------------------------------
\* Requests on their way to the backend: the rate limiter, the tool filters of
\* the routes and the request translator.

\* Tools one request lists at most, and content blocks one assistant message
\* holds at most.
MaxTools == 2
MaxBlocks == 2

\* A tool definition: its type and its name (function.name on the
\* chat-completions route); "" stands for a field the tool does not have.
Tool(type, name) == [type |-> type, name |-> name]

GetWeather == Tool("function", "get_weather")
WebSearchFunction == Tool("function", "web_search")
HostedWebSearch == Tool("web_search", "")
CodeInterpreter == Tool("code_interpreter", "")
CustomWeather == Tool("custom", "get_weather")
CustomReadFile == Tool("custom", "read_file")
ServerWebSearch == Tool("web_search_20250305", "web_search")
NamedWebSearch == Tool("custom", "web_search")

\* tools: absent (undefined) or a list.
NoTools == [present |-> FALSE, list |-> <<>>]
Tools(list) == [present |-> TRUE, list |-> list]

\* tool_choice: absent, a string ("auto"), or an object with a type and a
\* name, the name of an object being either its name or its function.name.
NoChoice == [form |-> Undefined, type |-> "", name |-> "", function |-> ""]
StringChoice(s) == [form |-> "string", type |-> s, name |-> "", function |-> ""]
ObjectChoice(type, name, function) ==
  [form |-> "object", type |-> type, name |-> name, function |-> function]
AutoChoice == ObjectChoice("auto", "", "")

\* The routes that filter tools, the translation route, and the token count.
FilterRoutes == {"passthrough", "chat", "responses"}
Routes == FilterRoutes \cup {"messages", "count_tokens"}

ToolMenu(r) ==
  CASE r = "passthrough" -> {ServerWebSearch, CustomWeather, CustomReadFile}
    [] r = "chat"        -> {HostedWebSearch, WebSearchFunction, GetWeather}
    [] r = "responses"   -> {HostedWebSearch, CodeInterpreter, GetWeather}
    [] r = "messages"    -> {NamedWebSearch, CustomWeather}
    [] r = "count_tokens" -> {ServerWebSearch, CustomWeather}

ChoiceMenu(r) ==
  CASE r = "passthrough" ->
         {NoChoice, AutoChoice, ObjectChoice("tool", "web_search", ""),
          ObjectChoice("tool", "get_weather", "")}
    [] r = "chat" ->
         {NoChoice, StringChoice("auto"),
          ObjectChoice("function", "", "web_search"),
          ObjectChoice("function", "", "get_weather")}
    [] r = "responses" ->
         {NoChoice, StringChoice("auto"), ObjectChoice("tool", "web_search", ""),
          ObjectChoice("function", "", "web_search"),
          ObjectChoice("function", "", "get_weather")}
    [] r = "messages" -> {NoChoice}
    [] r = "count_tokens" -> {NoChoice, ObjectChoice("tool", "web_search", "")}

\* The sequences of at most n members of a set.
RECURSIVE ListsOf(_, _)
ListsOf(S, n) ==
  IF n = 0 THEN {<<>>}
  ELSE LET shorter == ListsOf(S, n - 1)
       IN shorter \cup {Append(l, x) : l \in {s \in shorter : Len(s) = n - 1},
                                       x \in S}

Distinct(l) == \A i, j \in 1..Len(l) : l[i] = l[j] => i = j

ToolLists(r) ==
  {NoTools} \cup {Tools(l) : l \in {s \in ListsOf(ToolMenu(r), MaxTools) : Distinct(s)}}

\* Content blocks of an assistant message.
Block(type, id, name, text) == [type |-> type, id |-> id, name |-> name, text |-> text]
ToolUse(id, name) == Block("tool_use", id, name, "")
Text(text) == Block("text", "", "", text)

BlockMenu ==
  {ToolUse("toolu_1", "get_weather"), ToolUse("", ""), ToolUse("toolu_2", ""),
   ToolUse("", "read_file"), Text("Working on it.")}

BlockLists == ListsOf(BlockMenu, MaxBlocks)

\* A request body: what the client sent, or what goes to the backend. model is
\* a resolver string; content and tool_calls are those of the assistant message.
\* layout is how the body text is written (as JSON.stringify writes it, or
\* with other spacing), injected whether search results were put into it.
Request(model, tools, choice, blocks) ==
  [present |-> TRUE, model |-> model, tools |-> tools, tool_choice |-> choice,
   blocks |-> blocks, content |-> <<>>, tool_calls |-> NoTools,
   layout |-> "compact", injected |-> FALSE]

NoRequest ==
  [present |-> FALSE, model |-> <<>>, tools |-> NoTools, tool_choice |-> NoChoice,
   blocks |-> <<>>, content |-> <<>>, tool_calls |-> NoTools,
   layout |-> "compact", injected |-> FALSE]

----------------------------------------------------------------------------
\* Rate limiter: checkRateLimit(state) (lib/rate-limit.ts).

\* state.rateLimitSeconds is set or not, state.rateLimitWait, and how long ago
\* state.lastRequestTimestamp is: never set, within the limit, or beyond it.
Limiter(enabled, wait, last) == [enabled |-> enabled, wait |-> wait, last |-> last]

Limiters ==
  {Limiter(FALSE, FALSE, "never")}
    \cup {Limiter(TRUE, w, l) : w \in BOOLEAN, l \in {"never", "within", "beyond"}}

NoLimiter == Limiter(FALSE, FALSE, "never")

\* Returns when no limit is set, on the first request, when the last request
\* is long enough ago, and after sleeping in wait mode; otherwise throws the
\* 429 HTTPError. A request let through stamps the time.
checkRateLimit(l) ==
  IF ~l.enabled THEN [passes |-> TRUE, limiter |-> l]
  ELSE IF l.last = "within" /\ ~l.wait THEN [passes |-> FALSE, limiter |-> l]
  ELSE [passes |-> TRUE, limiter |-> [l EXCEPT !.last = "within"]]

----------------------------------------------------------------------------
\* Tool filters.

\* createResponses: filterUnsupportedTools(payload).
getToolChoiceName(toolChoice) ==
  IF toolChoice.form # "object" THEN ""
  ELSE IF toolChoice.function # "" THEN toolChoice.function
  ELSE toolChoice.name

IsFunctionTool(tool) == tool.type = "function"

\* A filter that leaves the tool choice as it came.
filterToolsKeepingChoice(p) ==
  IF ~p.tools.present THEN p
  ELSE LET supported == SelectSeq(p.tools.list, IsFunctionTool)
       IN [p EXCEPT !.tools = IF supported # <<>> THEN Tools(supported) ELSE NoTools]

filterUnsupportedTools(p) ==
  IF ~p.tools.present THEN p
  ELSE LET supported == SelectSeq(p.tools.list, IsFunctionTool)
           supportedNames == {supported[i].name : i \in 1..Len(supported)} \ {""}
           toolChoiceName == getToolChoiceName(p.tool_choice)
           toolChoice ==
             IF supported = <<>> THEN NoChoice
             ELSE IF /\ p.tool_choice.form = "object"
                     /\ toolChoiceName # ""
                     /\ toolChoiceName \notin supportedNames
               THEN NoChoice
             ELSE p.tool_choice
       IN [p EXCEPT !.tools = IF supported # <<>> THEN Tools(supported) ELSE NoTools,
                    !.tool_choice = toolChoice]

\* routes/messages/handler.ts: tool.type.startsWith("web_search") ||
\* tool.name === "web_search", over the types of the tool menus.
isWebSearchTool(tool) ==
  tool.type \in {"web_search", "web_search_20250305"} \/ tool.name = "web_search"

NotWebSearchTool(tool) == ~isWebSearchTool(tool)

\* A strip that filters the tools and leaves the tool choice as it came.
stripWebSearchToolOnly(body) ==
  IF ~body.tools.present THEN body
  ELSE LET tools == SelectSeq(body.tools.list, NotWebSearchTool)
       IN [body EXCEPT !.tools = IF tools = <<>> THEN NoTools ELSE Tools(tools)]

stripWebSearchTool(body) ==
  IF ~body.tools.present THEN body
  ELSE LET tools == SelectSeq(body.tools.list, NotWebSearchTool)
       IN IF tools = <<>>
            THEN [body EXCEPT !.tools = NoTools, !.tool_choice = NoChoice]
          ELSE IF /\ body.tool_choice.form = "object"
                  /\ body.tool_choice.type = "tool"
                  /\ body.tool_choice.name # ""
                  /\ \A i \in 1..Len(tools) : tools[i].name # body.tool_choice.name
            THEN [body EXCEPT !.tools = Tools(tools), !.tool_choice = AutoChoice]
          ELSE [body EXCEPT !.tools = Tools(tools)]

\* What becomes of a web search: not made (a tool result in the messages, or
\* no query), made with results, or made and thrown.
SearchOutcomes == {"skipped", "succeeded", "failed"}

\* JSON.stringify(body): the body written without spacing.
stringify(body) == [body EXCEPT !.layout = "compact"]

\* injectSearchResults(body, results)
injectSearchResults(body) == [body EXCEPT !.injected = TRUE]

HasWebSearchTool(body) ==
  body.tools.present /\ \E i \in 1..Len(body.tools.list) :
                          isWebSearchTool(body.tools.list[i])

\* processWebSearch(rawBody): a body that lists no web_search tool is returned
\* as it came; any other gets the results of a search that succeeded, is
\* stripped whatever became of the search, and is written anew.
processWebSearch(body, outcome) ==
  IF ~HasWebSearchTool(body) THEN body
  ELSE stringify(stripWebSearchTool(IF outcome = "succeeded"
                                      THEN injectSearchResults(body)
                                    ELSE body))

\* routes/messages/count-tokens-handler.ts: stripWebSearchFromBody(rawBody)
stripWebSearchFromBody(body) ==
  IF ~HasWebSearchTool(body) THEN body
  ELSE stringify(stripWebSearchTool(body))

\* String.prototype.toLowerCase over the letters of the model menus.
toLowerCase(s) ==
  [i \in 1..Len(s) |-> CASE s[i] = "O" -> "o"
                          [] s[i] = "C" -> "c"
                          [] OTHER -> s[i]]

\* String.prototype.includes
stringIncludes(s, part) ==
  \E i \in 0..(Len(s) - Len(part)) : SubSeq(s, i + 1, i + Len(part)) = part

IsOpus1m(id) == stringIncludes(id, opus) /\ EndsWith(id, OneM)

\* lib/utils.ts: resolveModel(modelId)
resolveModel(modelId, ids) ==
  IF ids = <<>> THEN modelId
  ELSE IF \E i \in 1..Len(ids) : ids[i] = modelId THEN modelId
  ELSE IF stringIncludes(toLowerCase(modelId), opus)
    THEN LET oneM == SelectSeq(ids, IsOpus1m)
         IN IF oneM # <<>> THEN oneM[1] ELSE modelId
  ELSE modelId

\* A resolveModelInBody that writes the body anew whatever the model.
resolveModelInBodyRewritten(body, ids) ==
  stringify([body EXCEPT !.model = resolveModel(body.model, ids)])

\* routes/messages/handler.ts: resolveModelInBody(rawBody): the body as it
\* came when the model resolves to itself, else written anew with the
\* resolved model.
resolveModelInBody(body, ids) ==
  LET resolvedModel == resolveModel(body.model, ids)
  IN IF resolvedModel = body.model THEN body
     ELSE stringify([body EXCEPT !.model = resolvedModel])

\* routes/chat-completions/handler.ts: injectWebSearchIfNeeded(payload).
IsChatWebSearch(tool) == tool.type = "web_search" \/ tool.name = "web_search"

NotChatWebSearch(tool) == ~IsChatWebSearch(tool)

HasChatWebSearch(p) ==
  p.tools.present /\ \E i \in 1..Len(p.tools.list) : IsChatWebSearch(p.tools.list[i])

\* The results of a search that succeeded go into the messages; the tools are
\* filtered whatever became of the search.
injectWebSearchIfNeeded(body, outcome) ==
  IF ~HasChatWebSearch(body) THEN body
  ELSE LET p == IF outcome = "succeeded" THEN injectSearchResults(body) ELSE body
           tools == SelectSeq(p.tools.list, NotChatWebSearch)
       IN IF tools = <<>>
            THEN [p EXCEPT !.tools = NoTools, !.tool_choice = NoChoice]
          ELSE IF /\ p.tool_choice.form = "object"
                  /\ p.tool_choice.type = "function"
                  /\ p.tool_choice.function # ""
                  /\ \A i \in 1..Len(tools) : tools[i].name # p.tool_choice.function
            THEN [p EXCEPT !.tools = Tools(tools), !.tool_choice = NoChoice]
          ELSE [p EXCEPT !.tools = Tools(tools)]

\* The translating messages handler: injectWebSearchIfNeeded(payload) names a
\* tool by t.name === "web_search", returns at once when the search is not
\* made, and filters the tools after a search, leaving tool_choice alone.
IsNamedWebSearch(tool) == tool.name = "web_search"

NotNamedWebSearch(tool) == ~IsNamedWebSearch(tool)

HasNamedWebSearch(p) ==
  p.tools.present /\ \E i \in 1..Len(p.tools.list) : IsNamedWebSearch(p.tools.list[i])

injectWebSearchBeforeTranslation(body, outcome) ==
  IF ~HasNamedWebSearch(body) THEN body
  ELSE IF outcome = "skipped" THEN body
  ELSE LET p == IF outcome = "succeeded" THEN injectSearchResults(body) ELSE body
           tools == SelectSeq(p.tools.list, NotNamedWebSearch)
       IN [p EXCEPT !.tools = IF tools = <<>> THEN NoTools ELSE Tools(tools)]

----------------------------------------------------------------------------
\* Request Translator: translateToOpenAI(payload), its assistant message.

IsTextBlock(b) == b.type = "text"

IsToolUseBlock(b) == b.type = "tool_use"

\* A tool_use block carries both identifiers.
IsCompleteToolUse(b) == b.type = "tool_use" /\ b.id # "" /\ b.name # ""

\* The backend tool-call entry of a tool_use block.
ToolCallEntry(b) == [id |-> b.id, name |-> b.name]

\* The text blocks become the content, the tool_use blocks with both
\* identifiers become tool_calls; without any, tool_calls is left out. Each
\* tool becomes a function tool of the same name. The model is resolved
\* against the catalog.
translateToOpenAI(p, ids) ==
  LET kept == SelectSeq(p.blocks, IsCompleteToolUse)
      texts == SelectSeq(p.blocks, IsTextBlock)
  IN [p EXCEPT !.model = normalizeCopilotModelName(p.model, ids).id,
               !.tools =
                 IF ~p.tools.present THEN NoTools
                 ELSE Tools([i \in 1..Len(p.tools.list) |->
                               Tool("function", p.tools.list[i].name)]),
               !.blocks = <<>>,
               !.content = [i \in 1..Len(texts) |-> texts[i].text],
               !.tool_calls =
                 IF kept = <<>> THEN NoTools
                 ELSE Tools([i \in 1..Len(kept) |-> ToolCallEntry(kept[i])])]

\* No request is under way.
RequestIdle ==
  /\ route = "none"
  /\ stage = "idle"
  /\ limiter = NoLimiter
  /\ payload = NoRequest
  /\ outgoing = NoRequest
  /\ forwarded = NoRequest
  /\ reply = 0
  /\ manualApprove = FALSE
  /\ search = "none"
  /\ performed = <<>>

----------------------------------------------------------------------------
\* Upstream failures: createMessages and createResponses throw an HTTPError
\* that holds the backend's response, the route catches it and answers with
\* forwardError (lib/error.ts).

\* A response body: its text, and what JSON.parse makes of the text: whether
\* it parses, whether the value is an object, and the members the error path
\* reads: message, and error with its message.
Body(text, json, object, message, error, errorMessage) ==
  [text |-> text, json |-> json, object |-> object, message |-> message,
   error |-> error, errorMessage |-> errorMessage]

\* Text that is not JSON.
NotJson(text) == Body(text, FALSE, FALSE, Undefined, FALSE, Undefined)

NoBody == NotJson("")

\* The error bodies of the backend.
NestedErrorBody ==
  Body("{\"type\":\"error\",\"error\":{\"type\":\"invalid_request_error\",\"message\":\"model not supported\"}}",
       TRUE, TRUE, Undefined, TRUE, "model not supported")
TopLevelBody ==
  Body("{\"message\":\"Top-level error\"}", TRUE, TRUE, "Top-level error", FALSE, Undefined)
BothMessagesBody ==
  Body("{\"message\":\"outer\",\"error\":{\"message\":\"inner\"}}",
       TRUE, TRUE, "outer", TRUE, "inner")
EmptyObjectBody == Body("{}", TRUE, TRUE, Undefined, FALSE, Undefined)
EmptyErrorBody == Body("{\"error\":{}}", TRUE, TRUE, Undefined, TRUE, Undefined)
NullBody == Body("null", TRUE, FALSE, Undefined, FALSE, Undefined)
PlainBody == NotJson("plain error")

ErrorBodies ==
  {NestedErrorBody, TopLevelBody, BothMessagesBody, EmptyObjectBody,
   EmptyErrorBody, NullBody, PlainBody, NoBody}

\* The body of a successful answer.
OkBody == Body("{\"type\":\"message\"}", TRUE, TRUE, Undefined, FALSE, Undefined)

\* The statuses with which the backend refuses a call.
ErrorStatuses == {400, 401, 429, 500}

\* A response: status and body.
Answer(status, body) == [status |-> status, body |-> body]

NoAnswer == Answer(0, NoBody)

\* What createMessages puts in place of a body it could not read.
CouldNotRead == NotJson("(could not read error body)")

\* An error on its way to the route: an HTTPError with its response, or a
\* plain Error with its message.
HTTPError(res) == [kind |-> "HTTPError", message |-> "", response |-> res]
PlainError(message) == [kind |-> "Error", message |-> message, response |-> NoAnswer]
NoError == [kind |-> "none", message |-> "", response |-> NoAnswer]

\* c.json({error: {message, type: "error"}}): the body the route answers with.
ErrorJson(message) ==
  Body("{\"error\":{\"message\":\"" \o message \o "\",\"type\":\"error\"}}",
       TRUE, TRUE, Undefined, TRUE, message)

\* resolveErrorMessage(errorJson, fallback), errorJson being undefined when
\* the text did not parse.
resolveErrorMessage(body, fallback) ==
  IF ~body.json \/ ~body.object THEN fallback
  ELSE IF body.message # Undefined THEN body.message
  ELSE IF body.error /\ body.errorMessage # Undefined THEN body.errorMessage
  ELSE fallback

\* A forwardError that answers every error as an internal one.
forwardErrorAsInternal(error) ==
  Answer(500, ErrorJson(IF error.kind = "HTTPError" THEN "" ELSE error.message))

\* forwardError(c, error)
forwardError(error) ==
  IF error.kind = "HTTPError"
  THEN Answer(error.response.status,
              ErrorJson(resolveErrorMessage(error.response.body,
                                            error.response.body.text)))
  ELSE Answer(500, ErrorJson(error.message))

\* The services that call the backend.
Services == {"messages", "responses"}

Call(service, token, at) == [service |-> service, token |-> token, stage |-> at]

NoCall == Call("", FALSE, "idle")

\* No backend call is under way.
ErrorIdle ==
  /\ backendCall = NoCall
  /\ upstream = NoAnswer
  /\ thrown = NoError
  /\ answer = NoAnswer

----------------------------------------------------------------------------
\* Two requests in flight at once on the translation route.

\* The requests in flight at once.
InFlight == {"first", "second"}

\* Raw events each of them reads at most, and the chunk bodies it may read.
MaxPairChunks == 2
PairChunkMenu == {HelloChunk, StopChunk}

\* One request: where its handler is, the status it was refused with, and
\* the stream state, the raw events read and the events written of its
\* connection.
Flight(at, status, state, read, out) ==
  [stage |-> at, reply |-> status, streamState |-> state,
   received |-> read, written |-> out]

NoFlight == Flight("idle", 0, NewStreamState, <<>>, <<>>)

\* No pair of requests is under way.
PairIdle ==
  /\ shared = NoLimiter
  /\ inflight = [r \in InFlight |-> NoFlight]

----------------------------------------------------------------------------
\* Web search throttle: throttleSearch and searchWeb (services/copilot/web-search.ts).

MAX_SEARCHES_PER_SECOND == 3

\* Ticks of the clock in one second, the last tick of the clock, and the
\* calls of searchWeb that may be under way at once.
TicksPerSecond == 2
MaxTime == 4
MaxSearchers == 3

Searchers == 1..MaxSearchers

\* One caller of searchWeb: off, idle (between two calls), or sleeping in
\* throttleSearch until wakeAt.
Searcher(at, wakeAt) == [pc |-> at, wakeAt |-> wakeAt]

\* No search is under way.
SearchIdle ==
  /\ now = 0
  /\ searchTimestamps = <<>>
  /\ searchers = [p \in Searchers |-> Searcher("off", 0)]
  /\ sentAt = <<>>

----------------------------------------------------------------------------
\* launchChild (lib/launch.ts).

\* No process.exit yet.
NoExit == -1

\* Signals the launcher process receives at most.
MaxSignals == 2

\* The signals launchChild listens to, and the codes a child exits with.
Signals == {"SIGINT", "SIGTERM"}
ChildCodes == {0, 1, 2}

\* buildLaunchCommand(target).cmd[0]: the executable of a launch target.
LaunchKinds == {"claude-code", "codex"}
buildLaunchCommand(kind) == IF kind = "claude-code" THEN "claude" ELSE "codex"

\* The child process: its executable, whether it is about to be spawned,
\* running or exited, and its exit code (none while it runs, and none when a
\* signal ended it).
Child(executable, at, code) == [executable |-> executable, state |-> at, code |-> code]

NoChild == Child("", "none", NoExit)

\* A cleanup().then(() => exit(code)) callback: the code, and whether the
\* promise of its cleanup() call has resolved.
Then(code, ready) == [code |-> code, ready |-> ready]

\* Nothing has been launched.
LaunchIdle ==
  /\ child = NoChild
  /\ cleaned = FALSE
  /\ exiting = FALSE
  /\ closing = "none"
  /\ timeout = "none"
  /\ kills = 0
  /\ closes = 0
  /\ thens = <<>>
  /\ delivered = <<>>
  /\ exitCode = NoExit

----------------------------------------------------------------------------
\* setupAndServe: binding the server to a port.

MAX_PORT_RETRIES == 10
PORT_RANGE_MIN == 11000
PORT_RANGE_MAX == 65535
DEFAULT_PORT == 8787

\* The values Math.random() is drawn from: k / RandomDraws for k below it.
RandomDraws == 3

\* generateRandomPort with Math.random() = draw / RandomDraws.
generateRandomPort(draw) ==
  (draw * (PORT_RANGE_MAX - PORT_RANGE_MIN + 1)) \div RandomDraws + PORT_RANGE_MIN

\* What serve() throws: whether it is an Error, and which of the texts the
\* handler looks for its message includes.
BindError(instance, includes) == [instance |-> instance, includes |-> includes]

NoBindError == BindError(FALSE, {})

BindErrors ==
  {BindError(TRUE, {"EADDRINUSE"}),
   BindError(TRUE, {"address already in use"}),
   BindError(TRUE, {"EACCES"}),
   BindError(FALSE, {"EADDRINUSE"})}

\* A catch block that takes every Error for an address in use.
isAddrInUseAnyError(error) == error.instance

\* isAddrInUse of the catch block.
isAddrInUse(error) ==
  /\ error.instance
  /\ ("EADDRINUSE" \in error.includes \/ "address already in use" \in error.includes)

\* The bind loop: options.port given or not, the port of the last serve()
\* call, the loop counter, the serve() calls made, what they threw, and
\* whether setupAndServe is binding, serving or has thrown (a serve() error,
\* or the error that no port was found).
Binding(explicit, port, attempt, calls, errors, outcome, thrownAs) ==
  [explicit |-> explicit, port |-> port, attempt |-> attempt, calls |-> calls,
   errors |-> errors, outcome |-> outcome, thrown |-> thrownAs]

NoBinding == Binding(FALSE, 0, 0, 0, <<>>, "idle", "none")

\* setupAndServe has not been called.
ServeIdle == binding = NoBinding

\* Nothing but the handlers of the routes is under way.
ServicesIdle == ErrorIdle /\ PairIdle /\ SearchIdle /\ LaunchIdle /\ ServeIdle

----------------------------------------------------------------------------
\* handleCompletion (routes/messages/handler.ts).

Init ==
  /\ pc = "request"
  /\ clientModel \in ClientModels
  /\ backendModel = ""
  /\ backendResponse = NoBackendResponse
  /\ response = NoResponse
  /\ streamState = NewStreamState
  /\ received = <<>>
  /\ written = <<>>
  /\ ResolverIdle
  /\ RequestIdle
  /\ ServicesIdle

\* A handler to which the syntax error of JSON.parse on an argument string
\* comes through.
RespondNonStreamingStrict ==
  /\ pc = "request"
  /\ \E m \in BackendModels, resp \in BackendResponses :
       /\ backendModel' = m
       /\ backendResponse' = resp
       /\ IF \A i \in 1..Len(resp.tool_calls) : JSONparse(resp.tool_calls[i].arguments).ok
            THEN response' = translateToAnthropic(resp, Undefined) /\ pc' = "replied"
            ELSE response' = NoResponse /\ pc' = "failed"
  /\ UNCHANGED <<resolverVars, requestVars, serviceVars>>
  /\ UNCHANGED <<clientModel, streamState, received, written>>

\* The backend answered with a complete response (it has "choices"): translate
\* it and return it as JSON. The call passes the response alone.
RespondNonStreaming ==
  /\ pc = "request"
  /\ \E m \in BackendModels, resp \in BackendResponses :
       /\ backendModel' = m
       /\ backendResponse' = resp
       /\ response' = translateToAnthropic(resp, Undefined)
  /\ pc' = "replied"
  /\ UNCHANGED <<resolverVars, requestVars, serviceVars>>
  /\ UNCHANGED <<clientModel, streamState, received, written>>

\* The backend answered with an event stream: streamSSE runs the callback,
\* which creates the stream state and enters the loop.
RespondStreaming ==
  /\ pc = "request"
  /\ \E m \in BackendModels : backendModel' = m
  /\ streamState' = NewStreamState
  /\ pc' = "streaming"
  /\ UNCHANGED <<resolverVars, requestVars, serviceVars>>
  /\ UNCHANGED <<clientModel, backendResponse, response, received, written>>

\* for (const event of events) await stream.writeSSE(...): the events of one
\* chunk go out in order, after everything written before; n is the ordinal of
\* the raw event being handled.
writeSSEPrepended(out, events, n) ==
  [i \in 1..Len(events) |-> [event |-> events[i], chunk |-> n]] \o out

writeSSEReversed(out, events, n) ==
  out \o [i \in 1..Len(events) |-> [event |-> events[Len(events) + 1 - i], chunk |-> n]]

writeSSE(out, events, n) ==
  out \o [i \in 1..Len(events) |-> [event |-> events[i], chunk |-> n]]

\* A loop body that collects the events of a chunk and writes none of them
\* before it takes the next chunk.
TranslateAndHold(d, st) ==
  LET r == translateChunkToAnthropicEvents(d, st, Undefined)
  IN /\ received' = Append(received, RawEvent("JSON", backendModel, d))
     /\ streamState' = r.state
     /\ written' = written
     /\ UNCHANGED <<pc, clientModel, backendModel, backendResponse, response>>
     /\ UNCHANGED <<resolverVars, requestVars, serviceVars>>

\* One loop iteration on a chunk body d: parse, translate with the stream
\* state st, write the events. The call passes the chunk and the state alone.
TranslateAndWrite(d, st) ==
  LET r == translateChunkToAnthropicEvents(d, st, Undefined)
  IN /\ received' = Append(received, RawEvent("JSON", backendModel, d))
     /\ streamState' = r.state
     /\ written' = writeSSE(written, r.events, Len(received) + 1)
     /\ UNCHANGED <<pc, clientModel, backendModel, backendResponse, response>>
     /\ UNCHANGED <<resolverVars, requestVars, serviceVars>>

\* A loop that builds its stream state anew in every iteration.
HandleChunkFreshState ==
  /\ pc = "streaming"
  /\ Len(received) < MaxChunks
  /\ \E d \in ChunkMenu : TranslateAndWrite(d, NewStreamState)

HandleChunk ==
  /\ pc = "streaming"
  /\ Len(received) < MaxChunks
  /\ \E d \in ChunkMenu : TranslateAndWrite(d, streamState)

\* A sentinel handler that closes the message itself.
HandleDoneSynthesizing ==
  /\ pc = "streaming"
  /\ received' = Append(received, RawEvent("DONE", backendModel, NoDelta))
  /\ written' = writeSSE(written, <<MessageStop>>, Len(received) + 1)
  /\ pc' = "done"
  /\ UNCHANGED <<resolverVars, requestVars, serviceVars>>
  /\ UNCHANGED <<clientModel, backendModel, backendResponse, response, streamState>>

\* if (rawEvent.data === "[DONE]") break
HandleDone ==
  /\ pc = "streaming"
  /\ received' = Append(received, RawEvent("DONE", backendModel, NoDelta))
  /\ pc' = "done"
  /\ UNCHANGED <<resolverVars, requestVars, serviceVars>>
  /\ UNCHANGED <<clientModel, backendModel, backendResponse, response,
                 streamState, written>>

\* if (!rawEvent.data) continue
HandleEmptyData ==
  /\ pc = "streaming"
  /\ Len(received) < MaxChunks
  /\ received' = Append(received, RawEvent("EMPTY", backendModel, NoDelta))
  /\ UNCHANGED <<resolverVars, requestVars, serviceVars>>
  /\ UNCHANGED <<pc, clientModel, backendModel, backendResponse, response,
                 streamState, written>>

\* JSON.parse(rawEvent.data) on a body that is not JSON throws; nothing in the
\* loop catches it, so the callback ends and streamSSE closes the stream.
HandleMalformed ==
  /\ pc = "streaming"
  /\ Len(received) < MaxChunks
  /\ received' = Append(received, RawEvent("MALFORMED", backendModel, NoDelta))
  /\ pc' = "aborted"
  /\ UNCHANGED <<resolverVars, requestVars, serviceVars>>
  /\ UNCHANGED <<clientModel, backendModel, backendResponse, response,
                 streamState, written>>

\* The backend's event stream ends without a sentinel: the loop ends.
UpstreamClosed ==
  /\ pc = "streaming"
  /\ pc' = "done"
  /\ UNCHANGED <<resolverVars, requestVars, serviceVars>>
  /\ UNCHANGED <<clientModel, backendModel, backendResponse, response,
                 streamState, received, written>>

\* The client goes away: nothing more reaches it.
ClientDisconnect ==
  /\ pc = "streaming"
  /\ pc' = "closed"
  /\ UNCHANGED <<resolverVars, requestVars, serviceVars>>
  /\ UNCHANGED <<clientModel, backendModel, backendResponse, response,
                 streamState, received, written>>

Next ==
  \/ RespondNonStreaming
  \/ RespondStreaming
  \/ HandleChunk
  \/ HandleDone
  \/ HandleEmptyData
  \/ HandleMalformed
  \/ UpstreamClosed
  \/ ClientDisconnect

Spec == Init /\ [][Next]_vars

----------------------------------------------------------------------------
\* The model resolver on its own: every requested string against every catalog.

\* No response is under way.
HandlerIdle ==
  /\ pc = "idle"
  /\ clientModel = ""
  /\ backendModel = ""
  /\ backendResponse = NoBackendResponse
  /\ response = NoResponse
  /\ streamState = NewStreamState
  /\ received = <<>>
  /\ written = <<>>

\* A client model string meets a catalog snapshot.
ResolverInit ==
  /\ requested \in RequestedModels
  /\ modelIds \in Catalogs
  /\ resolved = NotResolved
  /\ HandlerIdle
  /\ RequestIdle
  /\ ServicesIdle

\* One call of the resolver.
Resolve ==
  /\ resolved = NotResolved
  /\ resolved' = normalizeCopilotModelName(requested, modelIds)
  /\ UNCHANGED <<requested, modelIds, responseVars, requestVars, serviceVars>>

ResolverNext == Resolve

ResolverSpec == ResolverInit /\ [][ResolverNext]_vars

----------------------------------------------------------------------------
\* The handlers of the routes up to the backend call.

\* The catalogs loaded while a request is translated.
LoadedCatalogs == {<<>>, <<ClaudeOpus46, gpt4o>>}

\* The catalogs loaded while a request is passed through.
PassthroughCatalogs == {<<>>, <<ClaudeOpus461m, gpt4o>>}

ClaudeOpusCaps == claude \o Dash \o <<"O", "p", "u", "s">> \o Dash \o <<"4", "-", "6">>

\* The body text as the client wrote it.
Layouts == {"compact", "spaced"}

\* The bodies clients send: tools and a tool choice on the filtering routes,
\* an assistant message or tools on the translation route; the routes that
\* forward the text of the body receive it in either layout.
Payloads(r) ==
  CASE r = "messages" ->
         {Request(m, NoTools, NoChoice, b) :
            m \in {ClaudeOpus46Dash, gpt4o}, b \in BlockLists}
           \cup {Request(gpt4o, t, NoChoice, <<>>) : t \in ToolLists(r)}
    [] r = "passthrough" ->
         {[Request(m, t, c, <<>>) EXCEPT !.layout = l] :
            m \in {gpt4o, ClaudeOpus46Dash, ClaudeOpusCaps},
            t \in ToolLists(r), c \in ChoiceMenu(r), l \in Layouts}
    [] r = "count_tokens" ->
         {[Request(gpt4o, t, c, <<>>) EXCEPT !.layout = l] :
            t \in ToolLists(r), c \in ChoiceMenu(r), l \in Layouts}
    [] OTHER -> {Request(gpt4o, t, c, <<>>) : t \in ToolLists(r), c \in ChoiceMenu(r)}

CatalogsOf(r) ==
  CASE r = "messages" -> LoadedCatalogs
    [] r = "passthrough" -> PassthroughCatalogs
    [] OTHER -> {<<>>}

\* A request arrives; on the chat, responses and count_tokens routes no
\* catalog is loaded, so resolveModel returns the model as it came.
RequestInit ==
  /\ route \in Routes
  /\ stage = "arrived"
  /\ limiter \in Limiters
  /\ payload \in Payloads(route)
  /\ outgoing = NoRequest
  /\ forwarded = NoRequest
  /\ reply = 0
  /\ manualApprove \in BOOLEAN
  /\ search = "none"
  /\ performed = <<>>
  /\ requested = <<>>
  /\ modelIds \in CatalogsOf(route)
  /\ resolved = NotResolved
  /\ HandlerIdle
  /\ ServicesIdle

\* A handler that goes on after the limiter has thrown.
CheckRateLimitUnheeded ==
  /\ stage = "arrived"
  /\ route # "count_tokens"
  /\ LET r == checkRateLimit(limiter)
     IN /\ limiter' = r.limiter
        /\ stage' = "admitted"
        /\ reply' = IF r.passes THEN 0 ELSE 429
  /\ performed' = Append(performed, "checkRateLimit")
  /\ UNCHANGED <<route, payload, outgoing, forwarded, manualApprove, search,
                 responseVars, resolverVars, serviceVars>>

\* await checkRateLimit(state), the first statement of every handler but that
\* of count_tokens: the HTTPError it throws ends the handler, and the route
\* answers 429.
CheckRateLimit ==
  /\ stage = "arrived"
  /\ route # "count_tokens"
  /\ LET r == checkRateLimit(limiter)
     IN /\ limiter' = r.limiter
        /\ stage' = IF r.passes THEN "admitted" ELSE "rejected"
        /\ reply' = IF r.passes THEN 0 ELSE 429
  /\ performed' = Append(performed, "checkRateLimit")
  /\ UNCHANGED <<route, payload, outgoing, forwarded, manualApprove, search,
                 responseVars, resolverVars, serviceVars>>

\* The upstream calls a search adds to those made: searchWeb when the body
\* lists a web search tool and the search is not skipped.
Searched(listed, outcome) ==
  IF listed /\ outcome # "skipped" THEN <<"searchWeb">> ELSE <<>>

\* What became of the search of a body.
SearchOf(listed, outcome) == IF listed THEN outcome ELSE "none"

\* A translation route that forwards every tool_use block as a tool call.
TranslateRequestUnfiltered ==
  /\ stage = "admitted"
  /\ route = "messages"
  /\ \E outcome \in SearchOutcomes :
       /\ outgoing' =
            LET uses == SelectSeq(payload.blocks, IsToolUseBlock)
            IN [translateToOpenAI(injectWebSearchBeforeTranslation(payload, outcome),
                                  modelIds) EXCEPT
                  !.tool_calls = Tools([i \in 1..Len(uses) |-> ToolCallEntry(uses[i])])]
       /\ search' = SearchOf(HasNamedWebSearch(payload), outcome)
       /\ performed' = performed \o Searched(HasNamedWebSearch(payload), outcome)
  /\ stage' = "translated"
  /\ UNCHANGED <<route, limiter, payload, forwarded, reply, manualApprove,
                 responseVars, resolverVars, serviceVars>>

\* Translation route: await injectWebSearchIfNeeded(anthropicPayload);
\* const openAIPayload = translateToOpenAI(anthropicPayload)
TranslateRequest ==
  /\ stage = "admitted"
  /\ route = "messages"
  /\ \E outcome \in SearchOutcomes :
       /\ outgoing' = translateToOpenAI(injectWebSearchBeforeTranslation(payload, outcome),
                                        modelIds)
       /\ search' = SearchOf(HasNamedWebSearch(payload), outcome)
       /\ performed' = performed \o Searched(HasNamedWebSearch(payload), outcome)
  /\ stage' = "translated"
  /\ UNCHANGED <<route, limiter, payload, forwarded, reply, manualApprove,
                 responseVars, resolverVars, serviceVars>>

\* if (state.manualApprove) await awaitApproval(): after the limiter on the
\* passthrough, chat and responses routes, after the translation on the
\* translation route. The prompt answers yes or no; no makes awaitApproval
\* throw, which ends the handler.
AwaitApproval ==
  /\ \/ stage = "admitted" /\ route \in FilterRoutes
     \/ stage = "translated" /\ route = "messages"
  /\ \E approved \in (IF manualApprove THEN BOOLEAN ELSE {TRUE}) :
       /\ performed' = IF manualApprove THEN Append(performed, "awaitApproval")
                       ELSE performed
       /\ stage' = IF ~approved THEN "denied"
                   ELSE IF route = "messages" THEN "prepared" ELSE "approved"
  /\ UNCHANGED <<route, limiter, payload, outgoing, forwarded, reply, manualApprove,
                 search, responseVars, resolverVars, serviceVars>>

\* Passthrough route: const finalBody = await processWebSearch(rawBody);
\* const { body: resolvedBody } = resolveModelInBody(finalBody)
ProcessWebSearch ==
  /\ stage = "approved"
  /\ route = "passthrough"
  /\ \E outcome \in SearchOutcomes :
       /\ outgoing' = resolveModelInBody(processWebSearch(payload, outcome), modelIds)
       /\ search' = SearchOf(HasWebSearchTool(payload), outcome)
       /\ performed' = performed \o Searched(HasWebSearchTool(payload), outcome)
  /\ stage' = "prepared"
  /\ UNCHANGED <<route, limiter, payload, forwarded, reply, manualApprove,
                 responseVars, resolverVars, serviceVars>>

\* Chat-completions route: await injectWebSearchIfNeeded(payload)
InjectWebSearch ==
  /\ stage = "approved"
  /\ route = "chat"
  /\ \E outcome \in SearchOutcomes :
       /\ outgoing' = injectWebSearchIfNeeded(payload, outcome)
       /\ search' = SearchOf(HasChatWebSearch(payload), outcome)
       /\ performed' = performed \o Searched(HasChatWebSearch(payload), outcome)
  /\ stage' = "prepared"
  /\ UNCHANGED <<route, limiter, payload, forwarded, reply, manualApprove,
                 responseVars, resolverVars, serviceVars>>

\* Responses route: the handler leaves the tools to createResponses.
PrepareResponses ==
  /\ stage = "approved"
  /\ route = "responses"
  /\ outgoing' = payload
  /\ stage' = "prepared"
  /\ UNCHANGED <<route, limiter, payload, forwarded, reply, manualApprove, search,
                 performed, responseVars, resolverVars, serviceVars>>

\* The service a route calls.
BackendCall(r) ==
  CASE r = "passthrough" -> "createMessages"
    [] r = "messages" -> "createChatCompletions"
    [] r = "chat" -> "createChatCompletions"
    [] r = "responses" -> "createResponses"
    [] r = "count_tokens" -> "countTokens"

\* The backend call sends the prepared body; createResponses sends
\* filterUnsupportedTools(payload).
CallBackend ==
  /\ stage = "prepared"
  /\ forwarded' = IF route = "responses" THEN filterUnsupportedTools(outgoing)
                  ELSE outgoing
  /\ performed' = Append(performed, BackendCall(route))
  /\ stage' = "called"
  /\ UNCHANGED <<route, limiter, payload, outgoing, reply, manualApprove, search,
                 responseVars, resolverVars, serviceVars>>

\* handleCountTokens: const finalBody = stripWebSearchFromBody(rawBody);
\* const response = await countTokens(finalBody, extraHeaders). No search is
\* made, and neither the limiter nor the approval prompt is consulted.
CountTokens ==
  /\ stage = "arrived"
  /\ route = "count_tokens"
  /\ outgoing' = stripWebSearchFromBody(payload)
  /\ forwarded' = outgoing'
  /\ search' = SearchOf(HasWebSearchTool(payload), "skipped")
  /\ performed' = Append(performed, BackendCall(route))
  /\ stage' = "called"
  /\ UNCHANGED <<route, limiter, payload, reply, manualApprove,
                 responseVars, resolverVars, serviceVars>>

RequestNext ==
  \/ CheckRateLimit
  \/ TranslateRequest
  \/ AwaitApproval
  \/ ProcessWebSearch
  \/ InjectWebSearch
  \/ PrepareResponses
  \/ CallBackend
  \/ CountTokens

RequestSpec == RequestInit /\ [][RequestNext]_vars

----------------------------------------------------------------------------
\* A backend call that fails, from the service to the route's answer.

\* Nothing but a failing backend call is under way.
OnlyErrors ==
  HandlerIdle /\ ResolverIdle /\ RequestIdle /\ PairIdle /\ SearchIdle /\ LaunchIdle /\ ServeIdle

\* A handler calls createMessages or createResponses.
ErrorInit ==
  /\ backendCall \in {Call(s, t, "calling") : s \in Services, t \in BOOLEAN}
  /\ upstream = NoAnswer
  /\ thrown = NoError
  /\ answer = NoAnswer
  /\ OnlyErrors

\* if (!state.copilotToken) throw new Error("Copilot token not found")
MissingToken ==
  /\ backendCall.stage = "calling"
  /\ ~backendCall.token
  /\ thrown' = PlainError("Copilot token not found")
  /\ backendCall' = [backendCall EXCEPT !.stage = "thrown"]
  /\ UNCHANGED <<upstream, answer>>
  /\ UNCHANGED <<responseVars, resolverVars, requestVars, pairVars, searchVars, launchVars, serveVars>>

\* if (!response.ok): createResponses throws an HTTPError that holds the
\* response; createMessages reads the body and throws an HTTPError that holds
\* a response rebuilt from the text it read and the status, or from the
\* replacement text when the body could not be read. The handler's catch
\* logs and throws the error on.
UpstreamRefuses ==
  /\ backendCall.stage = "calling"
  /\ backendCall.token
  /\ \E status \in ErrorStatuses, body \in ErrorBodies, readable \in BOOLEAN :
       /\ backendCall.service = "responses" => readable
       /\ upstream' = Answer(status, body)
       /\ thrown' = HTTPError(Answer(status, IF readable THEN body ELSE CouldNotRead))
  /\ backendCall' = [backendCall EXCEPT !.stage = "thrown"]
  /\ UNCHANGED answer
  /\ UNCHANGED <<responseVars, resolverVars, requestVars, pairVars, searchVars, launchVars, serveVars>>

\* response.ok: the handler answers with the backend's status and body.
UpstreamAccepts ==
  /\ backendCall.stage = "calling"
  /\ backendCall.token
  /\ upstream' = Answer(200, OkBody)
  /\ answer' = Answer(200, OkBody)
  /\ backendCall' = [backendCall EXCEPT !.stage = "answered"]
  /\ UNCHANGED thrown
  /\ UNCHANGED <<responseVars, resolverVars, requestVars, pairVars, searchVars, launchVars, serveVars>>

\* catch (error) { return await forwardError(c, error) }
ForwardError ==
  /\ backendCall.stage = "thrown"
  /\ answer' = forwardError(thrown)
  /\ backendCall' = [backendCall EXCEPT !.stage = "answered"]
  /\ UNCHANGED <<upstream, thrown>>
  /\ UNCHANGED <<responseVars, resolverVars, requestVars, pairVars, searchVars, launchVars, serveVars>>

ErrorNext ==
  \/ MissingToken
  \/ UpstreamRefuses
  \/ UpstreamAccepts
  \/ ForwardError

ErrorSpec == ErrorInit /\ [][ErrorNext]_vars

----------------------------------------------------------------------------
\* Two requests in flight at once: each handler runs from its rate-limit
\* check to the end of its stream, its awaits interleaved with the other's.

\* Nothing but the pair of requests is under way.
OnlyPair ==
  HandlerIdle /\ ResolverIdle /\ RequestIdle /\ ErrorIdle /\ SearchIdle /\ LaunchIdle /\ ServeIdle

\* Both requests have arrived; neither handler has run.
PairInit ==
  /\ shared \in Limiters
  /\ inflight = [r \in InFlight |-> Flight("arrived", 0, NewStreamState, <<>>, <<>>)]
  /\ OnlyPair

\* await checkRateLimit(state) in the handler of request r.
PairCheckRateLimit(r) ==
  /\ inflight[r].stage = "arrived"
  /\ LET c == checkRateLimit(shared)
     IN /\ shared' = c.limiter
        /\ inflight' = [inflight EXCEPT
                          ![r].stage = IF c.passes THEN "admitted" ELSE "rejected",
                          ![r].reply = IF c.passes THEN 0 ELSE 429]
  /\ UNCHANGED <<responseVars, resolverVars, requestVars, errorVars, searchVars, launchVars, serveVars>>

\* The limit's seconds go by since the last request let through.
PairTimePasses ==
  /\ shared.last = "within"
  /\ shared' = [shared EXCEPT !.last = "beyond"]
  /\ UNCHANGED inflight
  /\ UNCHANGED <<responseVars, resolverVars, requestVars, errorVars, searchVars, launchVars, serveVars>>

\* streamSSE runs the callback of request r, which creates its stream state.
PairOpenStream(r) ==
  /\ inflight[r].stage = "admitted"
  /\ inflight' = [inflight EXCEPT ![r].stage = "streaming",
                                  ![r].streamState = NewStreamState]
  /\ UNCHANGED shared
  /\ UNCHANGED <<responseVars, resolverVars, requestVars, errorVars, searchVars, launchVars, serveVars>>

\* A loop that keeps one stream state for all connections.
PairHandleChunkSharedState(r) ==
  /\ inflight[r].stage = "streaming"
  /\ Len(inflight[r].received) < MaxPairChunks
  /\ \E d \in PairChunkMenu :
       LET t == translateChunkToAnthropicEvents(d, inflight["first"].streamState, Undefined)
       IN inflight' = [inflight EXCEPT
                         !["first"].streamState = t.state,
                         ![r].received = Append(@, RawEvent("JSON", "", d)),
                         ![r].written = writeSSE(@, t.events, Len(inflight[r].received) + 1)]
  /\ UNCHANGED shared
  /\ UNCHANGED <<responseVars, resolverVars, requestVars, errorVars, searchVars, launchVars, serveVars>>

\* One loop iteration of request r on a chunk.
PairHandleChunk(r) ==
  /\ inflight[r].stage = "streaming"
  /\ Len(inflight[r].received) < MaxPairChunks
  /\ \E d \in PairChunkMenu :
       LET t == translateChunkToAnthropicEvents(d, inflight[r].streamState, Undefined)
       IN inflight' = [inflight EXCEPT
                         ![r].streamState = t.state,
                         ![r].received = Append(@, RawEvent("JSON", "", d)),
                         ![r].written = writeSSE(@, t.events, Len(inflight[r].received) + 1)]
  /\ UNCHANGED shared
  /\ UNCHANGED <<responseVars, resolverVars, requestVars, errorVars, searchVars, launchVars, serveVars>>

\* The sentinel ends the loop of request r.
PairHandleDone(r) ==
  /\ inflight[r].stage = "streaming"
  /\ inflight' = [inflight EXCEPT ![r].stage = "done"]
  /\ UNCHANGED shared
  /\ UNCHANGED <<responseVars, resolverVars, requestVars, errorVars, searchVars, launchVars, serveVars>>

PairNext ==
  \/ PairTimePasses
  \/ \E r \in InFlight : PairCheckRateLimit(r)
  \/ \E r \in InFlight : PairOpenStream(r)
  \/ \E r \in InFlight : PairHandleChunk(r)
  \/ \E r \in InFlight : PairHandleDone(r)

PairSpec == PairInit /\ [][PairNext]_vars

----------------------------------------------------------------------------
\* Callers of searchWeb against the clock: throttleSearch runs without a
\* break up to its sleep and, after it, from its wake-up to its end.

\* Nothing but web searches is under way.
OnlySearches ==
  HandlerIdle /\ ResolverIdle /\ RequestIdle /\ ErrorIdle /\ PairIdle /\ LaunchIdle /\ ServeIdle

SearchInit ==
  /\ now = 0
  /\ searchTimestamps = <<>>
  /\ searchers = [p \in Searchers |-> Searcher("idle", 0)]
  /\ sentAt = <<>>
  /\ OnlySearches

\* The clock goes on.
Tick ==
  /\ now < MaxTime
  /\ now' = now + 1
  /\ UNCHANGED <<searchTimestamps, searchers, sentAt>>
  /\ UNCHANGED <<responseVars, resolverVars, requestVars, errorVars, pairVars, launchVars, serveVars>>

\* searchTimestamps.filter((t) => now - t < 1000)
recentSearches(stamps, at) ==
  LET Recent(t) == at - t < TicksPerSecond
  IN SelectSeq(stamps, Recent)

\* searchWeb calls throttleSearch: drop the timestamps older than a second;
\* with three or more left, sleep until the oldest is a second old;
\* otherwise push the time and go on to the search.
EnterThrottle(p) ==
  /\ searchers[p].pc = "idle"
  /\ LET kept == recentSearches(searchTimestamps, now)
         waitMs == TicksPerSecond - (now - kept[1])
     IN IF Len(kept) >= MAX_SEARCHES_PER_SECOND /\ waitMs > 0
        THEN /\ searchTimestamps' = kept
             /\ searchers' = [searchers EXCEPT ![p] = Searcher("sleeping", now + waitMs)]
             /\ UNCHANGED sentAt
        ELSE /\ searchTimestamps' = Append(kept, now)
             /\ sentAt' = Append(sentAt, now)
             /\ UNCHANGED searchers
  /\ UNCHANGED now
  /\ UNCHANGED <<responseVars, resolverVars, requestVars, errorVars, pairVars, launchVars, serveVars>>

\* The sleep is over: searchTimestamps.push(Date.now()), and the search goes
\* upstream.
WakeUp(p) ==
  /\ searchers[p].pc = "sleeping"
  /\ now >= searchers[p].wakeAt
  /\ searchTimestamps' = Append(searchTimestamps, now)
  /\ sentAt' = Append(sentAt, now)
  /\ searchers' = [searchers EXCEPT ![p] = Searcher("idle", 0)]
  /\ UNCHANGED now
  /\ UNCHANGED <<responseVars, resolverVars, requestVars, errorVars, pairVars, launchVars, serveVars>>

SearchNext ==
  \/ Tick
  \/ \E p \in Searchers : EnterThrottle(p)
  \/ \E p \in Searchers : WakeUp(p)

SearchSpec == SearchInit /\ [][SearchNext]_vars

----------------------------------------------------------------------------
\* launchChild: the launcher process from the spawn of the child to
\* process.exit. Callbacks run one at a time; a callback of a resolved
\* promise runs before the next event is taken.

\* Nothing but the launcher is under way.
OnlyLauncher ==
  HandlerIdle /\ ResolverIdle /\ RequestIdle /\ ErrorIdle /\ PairIdle /\ SearchIdle /\ ServeIdle

\* launchChild is entered.
LaunchInit ==
  /\ child \in {Child(buildLaunchCommand(kind), "starting", NoExit) : kind \in LaunchKinds}
  /\ cleaned = FALSE
  /\ exiting = FALSE
  /\ closing = "none"
  /\ timeout = "none"
  /\ kills = 0
  /\ closes = 0
  /\ thens = <<>>
  /\ delivered = <<>>
  /\ exitCode = NoExit
  /\ OnlyLauncher

\* process.exit has not been called.
Alive == exitCode = NoExit

\* No callback of a resolved promise is waiting to run.
NoneReady == \A i \in 1..Len(thens) : ~thens[i].ready

\* if (!commandExists(executable)) process.exit(1)
NotFound ==
  /\ child.state = "starting"
  /\ Alive
  /\ child' = [child EXCEPT !.state = "none"]
  /\ exitCode' = 1
  /\ UNCHANGED <<cleaned, exiting, closing, timeout, kills, closes, thens, delivered>>
  /\ UNCHANGED <<responseVars, resolverVars, requestVars, errorVars, pairVars, searchVars, serveVars>>

\* spawn throws: server.close(true).catch(() => {}); process.exit(1)
SpawnFails ==
  /\ child.state = "starting"
  /\ Alive
  /\ child' = [child EXCEPT !.state = "none"]
  /\ closes' = closes + 1
  /\ closing' = "pending"
  /\ exitCode' = 1
  /\ UNCHANGED <<cleaned, exiting, timeout, kills, thens, delivered>>
  /\ UNCHANGED <<responseVars, resolverVars, requestVars, errorVars, pairVars, searchVars, serveVars>>

\* spawn returns the child; the handlers of SIGINT, SIGTERM, exit and error
\* are registered.
Spawned ==
  /\ child.state = "starting"
  /\ Alive
  /\ child' = [child EXCEPT !.state = "running"]
  /\ UNCHANGED <<cleaned, exiting, closing, timeout, kills, closes, thens, delivered, exitCode>>
  /\ UNCHANGED <<responseVars, resolverVars, requestVars, errorVars, pairVars, searchVars, serveVars>>

\* A cleanup that does not look at its flag.
cleanupUnguarded(code) ==
  /\ cleaned' = TRUE
  /\ kills' = kills + 1
  /\ timeout' = "armed"
  /\ closes' = closes + 1
  /\ closing' = "pending"
  /\ thens' = Append(thens, Then(code, FALSE))

\* A cleanup that arms no timer before it awaits server.close.
cleanupUntimed(code) ==
  IF cleaned
  THEN /\ thens' = Append(thens, Then(code, TRUE))
       /\ UNCHANGED <<cleaned, kills, timeout, closes, closing>>
  ELSE /\ cleaned' = TRUE
       /\ kills' = kills + 1
       /\ closes' = closes + 1
       /\ closing' = "pending"
       /\ thens' = Append(thens, Then(code, FALSE))
       /\ UNCHANGED timeout

\* cleanup().then(() => exit(code)): cleanup up to its await. A call that
\* finds cleaned set returns at once, and its callback is ready to run; the
\* first call kills the child, arms the timer and calls server.close(true),
\* and its callback waits for that promise.
cleanup(code) ==
  IF cleaned
  THEN /\ thens' = Append(thens, Then(code, TRUE))
       /\ UNCHANGED <<cleaned, kills, timeout, closes, closing>>
  ELSE /\ cleaned' = TRUE
       /\ kills' = kills + 1
       /\ timeout' = "armed"
       /\ closes' = closes + 1
       /\ closing' = "pending"
       /\ thens' = Append(thens, Then(code, FALSE))

\* SIGINT or SIGTERM: onSignal.
Signal ==
  /\ child.state \in {"running", "exited"}
  /\ Alive
  /\ NoneReady
  /\ Cardinality({i \in 1..Len(delivered) : delivered[i] \in Signals}) < MaxSignals
  /\ \E sig \in Signals : delivered' = Append(delivered, sig)
  /\ cleanup(130)
  /\ UNCHANGED <<child, exiting, exitCode>>
  /\ UNCHANGED <<responseVars, resolverVars, requestVars, errorVars, pairVars, searchVars, serveVars>>

\* child.on("exit", (exitCode) => ...): the code is null when a signal ended
\* the child, and exitCode ?? 0 is passed on.
ChildExits ==
  /\ child.state = "running"
  /\ Alive
  /\ NoneReady
  /\ delivered' = Append(delivered, "exit")
  /\ \E code \in ChildCodes \cup {NoExit} :
       /\ child' = [child EXCEPT !.state = "exited", !.code = code]
       /\ cleanup(IF code = NoExit THEN 0 ELSE code)
  /\ UNCHANGED <<exiting, exitCode>>
  /\ UNCHANGED <<responseVars, resolverVars, requestVars, errorVars, pairVars, searchVars, serveVars>>

\* child.on("error", () => exit(1))
ChildError ==
  /\ child.state = "running"
  /\ Alive
  /\ NoneReady
  /\ ~exiting
  /\ delivered' = Append(delivered, "error")
  /\ exiting' = TRUE
  /\ exitCode' = 1
  /\ UNCHANGED <<child, cleaned, closing, timeout, kills, closes, thens>>
  /\ UNCHANGED <<responseVars, resolverVars, requestVars, errorVars, pairVars, searchVars, serveVars>>

\* await server.close(true) settles, resolved or rejected (and caught):
\* clearTimeout(timeout), and cleanup's promise resolves.
CloseSettles ==
  /\ closing = "pending"
  /\ timeout = "armed"
  /\ Alive
  /\ NoneReady
  /\ \E ok \in BOOLEAN : closing' = IF ok THEN "settled" ELSE "rejected"
  /\ timeout' = "cleared"
  /\ thens' = [i \in 1..Len(thens) |-> Then(thens[i].code, TRUE)]
  /\ UNCHANGED <<child, cleaned, exiting, kills, closes, delivered, exitCode>>
  /\ UNCHANGED <<responseVars, resolverVars, requestVars, errorVars, pairVars, searchVars, serveVars>>

\* setTimeout(() => process.exit(1), 5000) fires while server.close is pending.
TimeoutFires ==
  /\ timeout = "armed"
  /\ closing = "pending"
  /\ Alive
  /\ NoneReady
  /\ timeout' = "fired"
  /\ exitCode' = 1
  /\ UNCHANGED <<child, cleaned, exiting, closing, kills, closes, thens, delivered>>
  /\ UNCHANGED <<responseVars, resolverVars, requestVars, errorVars, pairVars, searchVars, serveVars>>

\* The callback of a resolved cleanup() runs: exit(code), which returns when
\* exiting is set and otherwise sets it and calls process.exit(code).
RunThen ==
  /\ Alive
  /\ \E i \in 1..Len(thens) :
       /\ thens[i].ready
       /\ \A j \in 1..(i - 1) : ~thens[j].ready
       /\ thens' = SubSeq(thens, 1, i - 1) \o SubSeq(thens, i + 1, Len(thens))
       /\ IF exiting
          THEN UNCHANGED <<exiting, exitCode>>
          ELSE exiting' = TRUE /\ exitCode' = thens[i].code
  /\ UNCHANGED <<child, cleaned, closing, timeout, kills, closes, delivered>>
  /\ UNCHANGED <<responseVars, resolverVars, requestVars, errorVars, pairVars, searchVars, serveVars>>

LaunchNext ==
  \/ NotFound
  \/ SpawnFails
  \/ Spawned
  \/ Signal
  \/ ChildExits
  \/ ChildError
  \/ CloseSettles
  \/ TimeoutFires
  \/ RunThen

LaunchSpec == LaunchInit /\ [][LaunchNext]_vars

\* The launcher with a server whose close(true) never settles. The event
\* loop runs a timer that is due and a callback that is ready.
HungCloseNext ==
  \/ NotFound
  \/ SpawnFails
  \/ Spawned
  \/ Signal
  \/ ChildExits
  \/ ChildError
  \/ TimeoutFires
  \/ RunThen

HungCloseSpec ==
  /\ LaunchInit
  /\ [][HungCloseNext]_vars
  /\ WF_vars(TimeoutFires)
  /\ WF_vars(RunThen)

----------------------------------------------------------------------------
\* setupAndServe from the choice between the explicit port and the loop.

\* Nothing but the start of the server is under way.
OnlyServe ==
  HandlerIdle /\ ResolverIdle /\ RequestIdle /\ ErrorIdle /\ PairIdle /\ SearchIdle /\ LaunchIdle

\* setupAndServe has reached the choice, with options.port given or not.
ServeInit ==
  /\ binding \in {Binding(TRUE, DEFAULT_PORT, 0, 0, <<>>, "binding", "none"),
                  Binding(FALSE, 0, 0, 0, <<>>, "binding", "none")}
  /\ OnlyServe

\* options.port !== undefined: one serve() call; what it throws leaves
\* setupAndServe.
ServeExplicitPort ==
  /\ binding.outcome = "binding"
  /\ binding.explicit
  /\ \E result \in {NoBindError} \cup BindErrors :
       binding' = IF result = NoBindError
                  THEN [binding EXCEPT !.calls = @ + 1, !.outcome = "serving"]
                  ELSE [binding EXCEPT !.calls = @ + 1,
                                       !.errors = Append(@, result),
                                       !.outcome = "thrown",
                                       !.thrown = "serve"]
  /\ UNCHANGED <<responseVars, resolverVars, requestVars, errorVars, pairVars, searchVars, launchVars>>

\* One pass of the loop: serve() on a random port; break when it returns,
\* rethrow what is not an address in use, otherwise go round again, and
\* throw the error that no port was found when the loop ends without a server.
TryRandomPort ==
  /\ binding.outcome = "binding"
  /\ ~binding.explicit
  /\ binding.attempt < MAX_PORT_RETRIES
  /\ \E draw \in 0..(RandomDraws - 1), result \in {NoBindError} \cup BindErrors :
       LET candidatePort == generateRandomPort(draw)
           called == [binding EXCEPT !.port = candidatePort, !.calls = @ + 1]
           failed == [called EXCEPT !.errors = Append(@, result)]
       IN binding' =
            IF result = NoBindError THEN [called EXCEPT !.outcome = "serving"]
            ELSE IF ~isAddrInUse(result)
              THEN [failed EXCEPT !.outcome = "thrown", !.thrown = "serve"]
            ELSE IF binding.attempt + 1 < MAX_PORT_RETRIES
              THEN [failed EXCEPT !.attempt = @ + 1]
            ELSE [failed EXCEPT !.attempt = @ + 1,
                                !.outcome = "thrown",
                                !.thrown = "exhausted"]
  /\ UNCHANGED <<responseVars, resolverVars, requestVars, errorVars, pairVars, searchVars, launchVars>>

ServeNext ==
  \/ ServeExplicitPort
  \/ TryRandomPort

ServeSpec == ServeInit /\ [][ServeNext]_vars

----------------------------------------------------------------------------
\* What the client has been sent, and what the backend has sent, as seen in
\* the two logs.

Emitted == [i \in 1..Len(written) |-> written[i].event]

EventsOfType(t) == {i \in 1..Len(written) : written[i].event.type = t}

\* The raw events that were chunk bodies.
ChunkOrdinals == {i \in 1..Len(received) : received[i].kind = "JSON"}

FinishOrdinals == {i \in ChunkOrdinals : received[i].chunk.finish_reason # Null}

RECURSIVE FragmentsOf(_, _)
FragmentsOf(toolCalls, s) ==
  IF toolCalls = <<>> THEN <<>>
  ELSE (IF Head(toolCalls).index = s /\ Head(toolCalls).arguments # ""
        THEN <<Head(toolCalls).arguments>> ELSE <<>>)
       \o FragmentsOf(Tail(toolCalls), s)

\* The argument fragments the backend sent for slot s, in arrival order.
RECURSIVE ArrivedFragments(_, _)
ArrivedFragments(raws, s) ==
  IF raws = <<>> THEN <<>>
  ELSE (IF Head(raws).kind = "JSON" THEN FragmentsOf(Head(raws).chunk.tool_calls, s)
        ELSE <<>>)
       \o ArrivedFragments(Tail(raws), s)

\* The text fragments the backend sent, in arrival order.
RECURSIVE ArrivedText(_)
ArrivedText(raws) ==
  IF raws = <<>> THEN <<>>
  ELSE (IF Head(raws).kind = "JSON" /\ Head(raws).chunk.content # ""
        THEN <<Head(raws).chunk.content>> ELSE <<>>)
       \o ArrivedText(Tail(raws))

\* The slot whose id-and-name fragment carried this tool-call id.
SlotOfId(id) ==
  CHOOSE s \in Slots :
    \E i \in ChunkOrdinals :
      \E j \in 1..Len(received[i].chunk.tool_calls) :
        /\ received[i].chunk.tool_calls[j].id = id
        /\ received[i].chunk.tool_calls[j].index = s

IsJsonDelta(i) ==
  written[i].event.type = "content_block_delta" /\ written[i].event.delta = "input_json_delta"

IsTextDelta(i) ==
  written[i].event.type = "content_block_delta" /\ written[i].event.delta = "text_delta"

\* The input_json_delta events of the block started at position p: those that
\* carry its index, up to the next block started with the same index.
DeltasOfBlock(p) ==
  LET mine(q) ==
        /\ IsJsonDelta(q)
        /\ written[q].event.index = written[p].event.index
        /\ \A r \in (p + 1)..q :
             ~(written[r].event.type = "content_block_start"
               /\ written[r].event.index = written[p].event.index)
  IN SelectSeq([q \in 1..Len(written) |-> [pos |-> q, text |-> written[q].event.text]],
               LAMBDA x : x.pos > p /\ mine(x.pos))

Texts(xs) == [i \in 1..Len(xs) |-> xs[i].text]

\* The payloads of the written events that satisfy Keep, in emission order.
PayloadsWhere(Keep(_)) ==
  Texts(SelectSeq([q \in 1..Len(written) |-> [pos |-> q, text |-> written[q].event.text]],
                  LAMBDA x : Keep(x.pos)))

\* Whether a content block is open after the first k events of e: the last
\* start or stop among them is a start.
LastLifecycle(e, k) ==
  LET L == {i \in 1..k : e[i].type \in {"content_block_start", "content_block_stop"}}
  IN IF L = {} THEN 0 ELSE CHOOSE i \in L : \A j \in L : j <= i

OpenAfter(e, k) ==
  LastLifecycle(e, k) # 0 /\ e[LastLifecycle(e, k)].type = "content_block_start"

----------------------------------------------------------------------------
\* C1: for every tool_use block written to the client, the partial_json of
\* its input_json_delta events, concatenated in emission order, is the
\* argument string the backend sent for that tool call (its fragments in
\* arrival order), also when fragments arrived before the id and name.
C1_ArgumentsReassemble ==
  \A p \in EventsOfType("content_block_start") :
    written[p].event.block = "tool_use" =>
      Concat(Texts(DeltasOfBlock(p)))
        = Concat(ArrivedFragments(received, SlotOfId(written[p].event.id)))

\* The argument fragments that arrived for slot s, as a set.
FragmentSet(s) == {ArrivedFragments(received, s)[i] : i \in 1..Len(ArrivedFragments(received, s))}

FinishHandled ==
  /\ Len(received') = Len(received) + 1
  /\ Last(received').kind = "JSON"
  /\ Last(received').chunk.finish_reason # Null
  /\ Last(received').chunk.content = ""
  /\ Last(received').chunk.tool_calls = <<>>

\* C4: the step that handles a chunk with a finish reason ends its output,
\* in this order, with content_block_stop for the block that was open (if
\* one was), one message_delta carrying the mapped reason and the chunk's
\* usage, and one message_stop.
C4_FinishSequence ==
  [][FinishHandled =>
       LET fin  == Last(received').chunk
           old  == Emitted
           new  == [i \in 1..(Len(written') - Len(written)) |->
                      written'[Len(written) + i].event]
           n    == Len(new)
           tail == <<MessageDelta(mapOpenAIStopReasonToAnthropic(fin.finish_reason),
                                  fin.usage),
                     MessageStop>>
           head == IF old = <<>> THEN 1 ELSE 0
       IN /\ SubSeq(written', 1, Len(written)) = written
          /\ IF OpenAfter(old, Len(old))
             THEN /\ n = head + 3
                  /\ SubSeq(new, n - 2, n)
                       = <<ContentBlockStop(old[LastLifecycle(old, Len(old))].index)>> \o tail
             ELSE /\ n = head + 2
                  /\ SubSeq(new, n - 1, n) = tail
          /\ head = 1 => new[1].type = "message_start"]_vars

\* A finish chunk has just closed an open block and ended the message.
C4_Witness ==
  /\ Len(received) >= 2
  /\ Last(received).kind = "JSON"
  /\ Last(received).chunk.finish_reason = "tool_calls"
  /\ Len(written) >= 4
  /\ written[Len(written) - 3].event.type = "content_block_delta"
  /\ written[Len(written) - 2].event.type = "content_block_stop"
  /\ written[Len(written) - 1].event.type = "message_delta"
  /\ written[Len(written)].event.type = "message_stop"

\* C5: once a chunk with a finish reason has been translated, nothing more
\* is translated on the connection: no event follows message_stop.
C5_NothingAfterMessageStop ==
  \A i \in EventsOfType("message_stop") : i = Len(written)

\* C6: an unparseable chunk body produces no events and does not end the
\* stream: the loop goes on to the chunks that follow.
C6_MalformedSkipped ==
  /\ \A i \in 1..Len(written) : received[written[i].chunk].kind # "MALFORMED"
  /\ (\E i \in 1..Len(received) : received[i].kind = "MALFORMED") => pc # "aborted"

\* The streaming callback is over, or the client is gone.
StreamEnded == pc \in {"done", "aborted", "closed"}

\* C7, as stated: a stream that ends without a finish reason has sent the
\* client no content_block_stop, message_delta or message_stop, and the
\* sentinel itself has produced no event.
C7_NoStopEventsWithoutFinish ==
  (StreamEnded /\ FinishOrdinals = {}) =>
    /\ EventsOfType("content_block_stop") = {}
    /\ EventsOfType("message_delta") = {}
    /\ EventsOfType("message_stop") = {}
    /\ \A i \in 1..Len(written) : received[written[i].chunk].kind # "DONE"

\* C7, amended: a stream that ends without a finish reason has sent the
\* client no message_delta and no message_stop, the block open at its end
\* gets no content_block_stop (a content_block_stop is only ever followed at
\* once by the content_block_start of the block that replaced it), and the
\* sentinel itself has produced no event.
C7_NoSynthesizedClose ==
  (StreamEnded /\ FinishOrdinals = {}) =>
    /\ EventsOfType("message_delta") = {}
    /\ EventsOfType("message_stop") = {}
    /\ \A i \in EventsOfType("content_block_stop") :
         i < Len(written) /\ written[i + 1].event.type = "content_block_start"
    /\ streamState.contentBlockOpen => OpenAfter(Emitted, Len(written))
    /\ \A i \in 1..Len(written) : received[written[i].chunk].kind = "JSON"

\* The sentinel ended a stream that had an open block and no finish reason.
C7_Witness ==
  /\ pc = "done"
  /\ Len(received) >= 3
  /\ Last(received).kind = "DONE"
  /\ FinishOrdinals = {}
  /\ streamState.contentBlockOpen
  /\ EventsOfType("content_block_stop") # {}

\* C8: the model of message_start and the model of a non-streaming response
\* are the model string of the client's request.
C8_ModelEchoed ==
  /\ \A i \in EventsOfType("message_start") : written[i].event.model = clientModel
  /\ response.present => response.model = clientModel

\* What an event says, without its model and usage fields.
Shape(e) ==
  [type |-> e.type, index |-> e.index, block |-> e.block, delta |-> e.delta,
   text |-> e.text, stop_reason |-> e.stop_reason]

\* The backend stream of end-to-end scenario 2.
Scenario2 == <<RoleChunk, HelloChunk, ThereChunk, StopChunk>>

Scenario2Received ==
  /\ Len(received) = Len(Scenario2)
  /\ \A i \in 1..Len(received) :
       received[i].kind = "JSON" /\ received[i].chunk = Scenario2[i]

\* C9: a role chunk, the text deltas "Hello" and " there" and a finish chunk
\* with reason stop produce exactly message_start, content_block_start(text),
\* two text deltas, content_block_stop, message_delta(end_turn), message_stop.
C9_Scenario2 ==
  Scenario2Received =>
    [i \in 1..Len(written) |-> Shape(written[i].event)]
      = << Shape(MessageStart("", NoUsage)),
           Shape(ContentBlockStartText(0)),
           Shape(TextDelta(0, "Hello")),
           Shape(TextDelta(0, " there")),
           Shape(ContentBlockStop(0)),
           Shape(MessageDelta("end_turn", NoUsage)),
           Shape(MessageStop) >>

\* Scenario 2 has run to its end.
C9_Witness == Scenario2Received /\ Len(written) = 7

\* The stop-reason table as the specification states it.
StopReasonTable(r) ==
  CASE r = "stop"           -> "end_turn"
    [] r = "length"         -> "max_tokens"
    [] r = "tool_calls"     -> "tool_use"
    [] r = "content_filter" -> "end_turn"
    [] r = Null             -> Null

\* C10: the mapper gives end_turn for stop, max_tokens for length, tool_use
\* for tool_calls, end_turn for content_filter and null for null, wherever
\* the translators apply it.
C10_StopReasonTable ==
  /\ (response.present /\ backendResponse.finish_reason \in KnownFinishReasons) =>
       response.stop_reason = StopReasonTable(backendResponse.finish_reason)
  /\ \A i \in EventsOfType("message_delta") :
       written[i].event.stop_reason
         = StopReasonTable(received[written[i].chunk].chunk.finish_reason)

\* A complete response without a finish reason has been translated.
C10_Witness ==
  /\ response.present
  /\ backendResponse.finish_reason = Null
  /\ response.stop_reason = Null

\* C11: a finish reason that is none of stop, length, tool_calls,
\* content_filter or null is mapped to end_turn.
C11_UnknownMapsToEndTurn ==
  (response.present /\ backendResponse.finish_reason \notin KnownFinishReasons) =>
    response.stop_reason = "end_turn"

\* The resolver has returned.
Returned == resolved.tier # "none"

\* C12 as stated: an identifier returned through any tier other than
\* pass-through is a member of the catalog.
C12_NonPassThroughIsMember ==
  (Returned /\ resolved.tier # "passthrough") => Member(modelIds, resolved.id)

\* C12: an identifier returned through the exact, dash-to-dot, date, variant
\* or prefix tier is a member of the catalog.
C12_MatchingTiersReturnMembers ==
  resolved.tier \in {"exact", "dot", "date", "variant", "prefix"} =>
    Member(modelIds, resolved.id)

\* The date tier has returned a catalog member.
C12_Witness ==
  /\ resolved.tier = "date"
  /\ Member(modelIds, resolved.id)

\* The 8-digit dates of the requested strings.
Dates == {Date0514, Date0929}

\* C13: a requested string that ends in -YYYYMMDD and whose form without that
\* suffix is a catalog member resolves to that undated member.
C13_DateSuffixStripped ==
  \A d \in Dates :
    LET undated == SubSeq(requested, 1, Len(requested) - Len(Dash \o d))
    IN (/\ Returned
        /\ EndsWith(requested, Dash \o d)
        /\ Member(modelIds, undated)) => resolved.id = undated

\* The families whose version the dash-to-dot tier converts.
Families == {opus, sonnet, haiku}

\* C14 as stated: family-X-Y resolves to family-X.Y whenever family-X.Y is a
\* catalog member.
C14_DashResolvesToDot ==
  \A f \in Families, x, y \in Digits :
    (/\ Returned
     /\ requested = Claude(f, <<x, "-", y>>)
     /\ Member(modelIds, Claude(f, <<x, ".", y>>))) =>
      resolved.id = Claude(f, <<x, ".", y>>)

\* C14: family-X-Y that is not itself a catalog member resolves to family-X.Y
\* whenever family-X.Y is a catalog member.
C14_UncatalogedDashResolvesToDot ==
  \A f \in Families, x, y \in Digits :
    (/\ Returned
     /\ requested = Claude(f, <<x, "-", y>>)
     /\ ~Member(modelIds, requested)
     /\ Member(modelIds, Claude(f, <<x, ".", y>>))) =>
      resolved.id = Claude(f, <<x, ".", y>>)

\* claude-sonnet-4-5 has resolved to the cataloged claude-sonnet-4.5.
C14_Witness ==
  /\ requested = Claude(sonnet, <<"4", "-", "5">>)
  /\ resolved = Resolution(ClaudeSonnet45, "dot")

\* No tier before the family fallback has a catalog member for the string.
NoTierMatches(model, ids) ==
  LET dot == dotConverted(model)
      undated == withoutDate(dot)
      plain == withoutVariant(undated)
  IN /\ ~Member(ids, model)
     /\ ~Member(ids, dot)
     /\ ~Member(ids, undated)
     /\ ~Member(ids, plain)
     /\ \A i \in 1..Len(ids) : ~StartsWith(plain, ids[i])

\* C15: a Claude string that no tier resolves gets the fixed default
\* claude-opus-4.6, which is not empty.
C15_FamilyDefault ==
  (/\ Returned
   /\ StartsWith(requested, claude)
   /\ NoTierMatches(requested, modelIds)) =>
    /\ resolved.id = ClaudeOpus46
    /\ resolved.id # <<>>

\* An unresolvable Claude string has got the default although the catalog
\* does not list it.
C15_Witness ==
  /\ StartsWith(requested, claude)
  /\ NoTierMatches(requested, modelIds)
  /\ modelIds # <<>>
  /\ ~Member(modelIds, ClaudeOpus46)
  /\ resolved = Resolution(ClaudeOpus46, "fallback")

\* The tool_use blocks of the client's assistant message that carry both
\* identifiers.
CompleteToolUses == SelectSeq(payload.blocks, IsCompleteToolUse)

\* The request of the translation route has been translated.
Translated == route = "messages" /\ outgoing.present

Unsupported(r, tool) ==
  CASE r = "responses"   -> tool.type # "function"
    [] r = "passthrough" -> isWebSearchTool(tool)
    [] r = "chat"        -> IsChatWebSearch(tool)

RemovedTools ==
  {payload.tools.list[i] : i \in {j \in 1..Len(payload.tools.list) :
                                    Unsupported(route, payload.tools.list[j])}}

RemainingTools ==
  {payload.tools.list[i] : i \in {j \in 1..Len(payload.tools.list) :
                                    ~Unsupported(route, payload.tools.list[j])}}

\* The request of a filtering route has gone to the backend.
Forwarded == route \in FilterRoutes /\ stage = "called"

Names(choice, tool) ==
  /\ getToolChoiceName(choice) # ""
  /\ getToolChoiceName(choice) = (IF tool.name # "" THEN tool.name ELSE tool.type)

\* An absent tool choice, and the choice auto, leave the choice to the model.
Automatic(choice) == choice.form = Undefined \/ choice.type = "auto"

C20_RejectedNotTranslated ==
  reply = 429 =>
    /\ stage = "rejected"
    /\ outgoing = NoRequest
    /\ forwarded = NoRequest

\* The limiter has rejected a request of the translation route.
C20_Witness ==
  /\ reply = 429
  /\ route = "messages"
  /\ limiter = Limiter(TRUE, FALSE, "within")

\* The argument strings that are empty or stay unparseable after the repair.
BadArguments == {EmptyArguments, TruncatedArguments, UnterminatedArguments}

\* The content block of the i-th tool call of the backend response.
BlockOfCall(i) ==
  response.content[(IF backendResponse.content = "" THEN 0 ELSE 1) + i]

\* C19: a tool call whose argument string is empty, or cannot be parsed even
\* after the backslash repair, is answered with a tool_use block whose input
\* is the empty mapping.
C19_BadArgumentsGiveEmptyInput ==
  \A i \in 1..Len(backendResponse.tool_calls) :
    backendResponse.tool_calls[i].arguments \in BadArguments =>
      /\ response.present
      /\ BlockOfCall(i).type = "tool_use"
      /\ BlockOfCall(i).id = backendResponse.tool_calls[i].id
      /\ BlockOfCall(i).input = EmptyMapping

\* A response whose tool call has a truncated argument string has been
\* translated.
C19_Witness ==
  /\ response.present
  /\ Len(backendResponse.tool_calls) = 1
  /\ backendResponse.tool_calls[1].arguments = TruncatedArguments
  /\ Last(response.content).input = EmptyMapping

----------------------------------------------------------------------------
\* The events the translator produces from the raw events raws, each with the
\* ordinal of its raw event, when st is the stream state before them and k
\* raw events came before them.
RECURSIVE Produced(_, _, _)
Produced(raws, st, k) ==
  IF raws = <<>> THEN <<>>
  ELSE IF Head(raws).kind # "JSON" THEN Produced(Tail(raws), st, k + 1)
  ELSE LET r == translateChunkToAnthropicEvents(Head(raws).chunk, st, Undefined)
       IN [i \in 1..Len(r.events) |-> [event |-> r.events[i], chunk |-> k + 1]]
          \o Produced(Tail(raws), r.state, k + 1)

\* C24: each translated event is written to the client as it is produced,
\* before the next raw event of the backend is taken: whenever the loop is
\* between two raw events, or over, the client has been written every event
\* of every chunk taken so far, so the first event is not held back until the
\* backend stream has ended.
C24_WrittenAsProduced ==
  /\ written = Produced(received, NewStreamState, 0)
  /\ ChunkOrdinals # {} => written # <<>> /\ written[1].chunk = CHOOSE i \in ChunkOrdinals : \A j \in ChunkOrdinals : i <= j

\* While the backend stream is still open, the events of its first two chunks
\* are with the client.
C24_Witness ==
  /\ pc = "streaming"
  /\ Len(received) = 2
  /\ received[1].chunk = RoleChunk
  /\ received[2].chunk = HelloChunk
  /\ Len(written) = 3
  /\ written[1].chunk = 1
  /\ written[3].chunk = 2

\* C25: at every point of the event sequence written to the client at most
\* one content block is open: every content_block_start is written when no
\* block is open, the content_block_stop of the block before it having been
\* written first.
C25_AtMostOneBlockOpen ==
  \A k \in EventsOfType("content_block_start") : ~OpenAfter(Emitted, k - 1)

\* A tool_use block has replaced an open text block: the stop of the text
\* block is followed at once by the start of the tool_use block.
C25_Witness ==
  \E k \in 2..(Len(written) - 1) :
    /\ written[k - 1].event.type = "content_block_delta"
    /\ written[k - 1].event.delta = "text_delta"
    /\ written[k].event.type = "content_block_stop"
    /\ written[k + 1].event.type = "content_block_start"
    /\ written[k + 1].event.block = "tool_use"

\* C26: on one connection the first content block opened has index 0 and
\* every block opened later has a greater index than every block opened
\* before it, so no index is given to two blocks.
C26_IndicesIncrease ==
  LET starts == EventsOfType("content_block_start")
  IN /\ \A p \in starts :
          (\A q \in starts : p <= q) => written[p].event.index = 0
     /\ \A p, q \in starts :
          p < q => written[p].event.index < written[q].event.index

\* This step handled a chunk whose one tool-call fragment carries argument
\* text alone, for slot s, whose id and name had not arrived.
ArgumentsOnlyHandled(s) ==
  /\ Len(received') = Len(received) + 1
  /\ Last(received').kind = "JSON"
  /\ ~streamState.toolCalls[s].seen
  /\ Last(received').chunk.content = ""
  /\ Last(received').chunk.finish_reason = Null
  /\ Len(Last(received').chunk.tool_calls) = 1
  /\ Last(received').chunk.tool_calls[1].index = s
  /\ Last(received').chunk.tool_calls[1].id = ""
  /\ Last(received').chunk.tool_calls[1].name = ""
  /\ Last(received').chunk.tool_calls[1].arguments # ""

TierOrder == <<"exact", "dot", "date", "variant", "prefix", "fallback", "passthrough">>

\* The string the prefix tier works on: the requested string after the
\* dash-to-dot conversion, without its date and without its variant suffix.
WorkingString(model) == withoutVariant(withoutDate(dotConverted(model)))

\* The positions of the catalog members that are a prefix of the string.
PrefixPositions(ids, work) == {i \in 1..Len(ids) : StartsWith(work, ids[i])}

\* Whether tier k has a result for the string, as the specification words it.
TierMatches(k, model, ids) ==
  CASE TierOrder[k] = "exact"       -> Member(ids, model)
    [] TierOrder[k] = "dot"         -> Member(ids, dotConverted(model))
    [] TierOrder[k] = "date"        -> Member(ids, withoutDate(dotConverted(model)))
    [] TierOrder[k] = "variant"     -> Member(ids, WorkingString(model))
    [] TierOrder[k] = "prefix"      -> PrefixPositions(ids, WorkingString(model)) # {}
    [] TierOrder[k] = "fallback"    -> StartsWith(model, claude)
    [] TierOrder[k] = "passthrough" -> TRUE

\* The first of the longest catalog members that are a prefix of the string.
LongestPrefixFirstSeen(ids, work) ==
  LET P == PrefixPositions(ids, work)
      longest == {i \in P : \A j \in P : Len(ids[j]) <= Len(ids[i])}
  IN ids[CHOOSE i \in longest : \A j \in longest : i <= j]

\* What tier k gives for the string when it matches.
TierResult(k, model, ids) ==
  CASE TierOrder[k] = "exact"       -> model
    [] TierOrder[k] = "dot"         -> dotConverted(model)
    [] TierOrder[k] = "date"        -> withoutDate(dotConverted(model))
    [] TierOrder[k] = "variant"     -> WorkingString(model)
    [] TierOrder[k] = "prefix"      -> LongestPrefixFirstSeen(ids, WorkingString(model))
    [] TierOrder[k] = "fallback"    -> ClaudeOpus46
    [] TierOrder[k] = "passthrough" -> model

\* The first tier, in the order of the specification, that matches.
FirstMatchingTier(model, ids) ==
  CHOOSE k \in 1..Len(TierOrder) :
    /\ TierMatches(k, model, ids)
    /\ \A j \in 1..(k - 1) : ~TierMatches(j, model, ids)

\* C28: the tiers are tried in the order exact match, dash-to-dot, date
\* stripping, variant stripping, longest prefix, family fallback,
\* pass-through, and the first that matches decides the result;
\* claude-opus-4-6-1m resolves to claude-opus-4.6-1m when the catalog lists
\* both claude-opus-4.6 and claude-opus-4.6-1m.
C28_FirstMatchingTierDecides ==
  /\ Returned =>
       LET k == FirstMatchingTier(requested, modelIds)
       IN resolved = Resolution(TierResult(k, requested, modelIds), TierOrder[k])
  /\ (/\ Returned
      /\ requested = ClaudeOpus46Dash \o OneM
      /\ Member(modelIds, ClaudeOpus46)
      /\ Member(modelIds, ClaudeOpus461m)) => resolved.id = ClaudeOpus461m

\* claude-opus-4-6-1m has met a catalog that lists claude-opus-4.6-1m,
\* claude-opus-4.6 and claude-opus-4-6, and the dash-to-dot tier has decided.
C28_Witness ==
  /\ requested = ClaudeOpus46Dash \o OneM
  /\ modelIds = <<ClaudeOpus461m, ClaudeOpus46, ClaudeOpus46Dash>>
  /\ resolved = Resolution(ClaudeOpus461m, "dot")

\* C29: when the resolver comes to its prefix tier, it returns the longest
\* of the catalog members that are a prefix of the working string, and of
\* several longest ones the one the catalog lists first.
C29_LongestPrefix ==
  LET work == WorkingString(requested)
      P == PrefixPositions(modelIds, work)
  IN (/\ Returned
      /\ \A k \in 1..4 : ~TierMatches(k, requested, modelIds)
      /\ P # {}) =>
       /\ resolved.tier = "prefix"
       /\ \E i \in P :
            /\ resolved.id = modelIds[i]
            /\ \A j \in P : Len(modelIds[j]) <= Len(modelIds[i])
            /\ \A j \in P : Len(modelIds[j]) = Len(modelIds[i]) => i <= j

\* The prefix tier had two catalog members to choose from, the shorter one
\* listed first, and has returned the longer one.
C29_Witness ==
  /\ resolved.tier = "prefix"
  /\ \E i, j \in PrefixPositions(modelIds, WorkingString(requested)) :
       /\ i < j
       /\ Len(modelIds[i]) < Len(modelIds[j])
       /\ resolved.id = modelIds[j]

\* The route has answered a backend failure whose status and body the
\* service had read.
FailureAnswered ==
  /\ backendCall.stage = "answered"
  /\ thrown.kind = "HTTPError"
  /\ thrown.response = upstream

UpstreamMessage(body) ==
  CASE body = TopLevelBody     -> "Top-level error"
    [] body = BothMessagesBody -> "outer"
    [] body = NestedErrorBody  -> "model not supported"
    [] OTHER                   -> body.text

StepOf(r) == inflight'[r] # inflight[r]

\* This step is the rate-limit check of request r.
CheckOf(r) == inflight[r].stage = "arrived" /\ inflight'[r].stage # "arrived"

\* C22 as stated: requests in flight share no state that changes: a step of
\* one request's handler changes nothing that another request reads, and so
\* not the answer the rate-limit check has for a request that waits for it.
C22_NothingShared ==
  [][\A r \in InFlight :
       StepOf(r) =>
         /\ shared' = shared
         /\ \A o \in InFlight \ {r} :
              /\ inflight'[o] = inflight[o]
              /\ inflight[o].stage = "arrived" =>
                   checkRateLimit(shared').passes = checkRateLimit(shared).passes]_vars

\* C22: a step of one request's handler changes nothing of another request's
\* connection, and every connection has the events of its own chunks alone;
\* of the shared state it changes the time of the last request at most, and
\* with that the answer of the rate-limit check for a request that waits for
\* it only when a limit is set and wait mode is off.
C22_OnlyLimiterShared ==
  [][\A r \in InFlight :
       StepOf(r) =>
         /\ shared'.enabled = shared.enabled
         /\ shared'.wait = shared.wait
         /\ ~CheckOf(r) => shared' = shared
         /\ inflight'[r].written = Produced(inflight'[r].received, NewStreamState, 0)
         /\ \A o \in InFlight \ {r} :
              /\ inflight'[o] = inflight[o]
              /\ (~shared.enabled \/ shared.wait) =>
                   checkRateLimit(shared').passes = checkRateLimit(shared).passes]_vars

\* Both requests have streamed at once: each has read two chunks and holds
\* the events of its own, and no limit was set.
C22_Witness ==
  /\ ~shared.enabled
  /\ \A r \in InFlight :
       /\ inflight[r].stage = "streaming"
       /\ Len(inflight[r].received) = 2
  /\ inflight["first"].received[1].chunk = HelloChunk
  /\ inflight["second"].received[1].chunk = StopChunk
  /\ Len(inflight["first"].written) >= 3
  /\ inflight["first"].written # inflight["second"].written

\* The searches that went upstream in the second that starts at t.
SentInSecondFrom(t) == {i \in 1..Len(sentAt) : t <= sentAt[i] /\ sentAt[i] < t + TicksPerSecond}

\* C23: in any one-second window at most 3 searches go upstream, also when
\* several calls of searchWeb are under way at once.
C23_AtMostThreePerSecond ==
  \A t \in 0..MaxTime : Cardinality(SentInSecondFrom(t)) <= MAX_SEARCHES_PER_SECOND

\* The events that make the launcher clean up.
CleanupEvents == {i \in 1..Len(delivered) : delivered[i] \in Signals \cup {"exit"}}

\* C30: the body of launchChild's cleanup runs at most once: however many of
\* the child's exit event and the signals arrive, and in whatever order, the
\* child is killed once and server.close is called once.
C30_CleanupOnce ==
  /\ kills <= 1
  /\ closes <= 1
  /\ CleanupEvents # {} => cleaned /\ kills = 1 /\ closes = 1

\* The exit event of the child and a signal have both arrived, and the child
\* has been killed once and the server closed once.
C30_Witness ==
  /\ Len(delivered) = 2
  /\ \E i \in 1..2 : delivered[i] = "exit"
  /\ \E i \in 1..2 : delivered[i] \in Signals
  /\ kills = 1
  /\ closes = 1

\* process.exit has been called, and server.close has settled.
Exited == exitCode # NoExit
CloseDone == closing \in {"settled", "rejected"}

\* The code the exit handler of the child passes on: exitCode ?? 0.
PassedOn == IF child.code = NoExit THEN 0 ELSE child.code

\* A signal has been delivered to the launcher.
Signalled == \E i \in 1..Len(delivered) : delivered[i] \in Signals

\* C31: when the child has exited with code N and the launcher process has
\* exited other than by the 5-second timer, server.close has settled and the
\* launcher's exit code is N (0 when the child's code is null).
C31_ExitsWithChildCode ==
  (child.state = "exited" /\ Exited /\ timeout # "fired")
    => (CloseDone /\ exitCode = PassedOn)

\* C37: when a signal has been delivered and the launcher process has exited
\* other than by the 5-second timer, the child has been killed, server.close
\* has settled, and the launcher's exit code is 130.
C37_SignalExitsLast ==
  (Signalled /\ Exited /\ timeout # "fired")
    => (kills = 1 /\ CloseDone /\ exitCode = 130)

\* C32: with a server.close that never settles, the launcher process exits
\* once cleanup has begun; when the timer fires the exit code is 1, and after
\* a single exit event or signal the timer is the only way out.
C32_TimerEndsHungClose ==
  /\ [](timeout = "fired" => exitCode = 1)
  /\ []((Exited /\ cleaned /\ Len(delivered) = 1) => timeout = "fired")
  /\ (cleaned ~> Exited)

\* The timer has fired with server.close still pending, and the process has
\* exited with code 1.
C32_Witness ==
  /\ timeout = "fired"
  /\ closing = "pending"
  /\ Len(delivered) = 1
  /\ exitCode = 1

\* C40: the resolver is idempotent: resolving the identifier it has returned
\* against the same catalog returns that identifier.
C40_ResolverIdempotent ==
  Returned => normalizeCopilotModelName(resolved.id, modelIds).id = resolved.id

\* C38: every content_block_delta is written while a content block is open
\* and carries the index of that block: the last block event before it is a
\* content_block_start with the delta's index, also when the delta is an
\* argument fragment of an earlier tool-call slot.
C38_DeltaIntoOpenBlock ==
  \A i \in EventsOfType("content_block_delta") :
    /\ OpenAfter(Emitted, i - 1)
    /\ written[i].event.index = Emitted[LastLifecycle(Emitted, i - 1)].index

AddressInUse(e) ==
  e.instance /\ e.includes \cap {"EADDRINUSE", "address already in use"} # {}

\* C33: without an explicit port setupAndServe calls serve() at most ten
\* times, each on a port of the random range, goes on to another call only
\* after an address-in-use error, and has thrown once the tenth call has
\* failed; with an explicit port it calls serve() once at most.
C33_BoundedBindAttempts ==
  /\ binding.calls <= MAX_PORT_RETRIES
  /\ binding.explicit => binding.calls <= 1
  /\ (~binding.explicit /\ binding.calls > 0) =>
       binding.port \in PORT_RANGE_MIN..PORT_RANGE_MAX
  /\ \A i \in 1..Len(binding.errors) :
       i < binding.calls => AddressInUse(binding.errors[i])
  /\ Len(binding.errors) = MAX_PORT_RETRIES => binding.outcome = "thrown"
  /\ binding.thrown = "exhausted" =>
       (~binding.explicit /\ binding.calls = MAX_PORT_RETRIES
        /\ Len(binding.errors) = MAX_PORT_RETRIES)

\* Ten serve() calls have each met an address in use, and setupAndServe has
\* thrown the error that no port was found.
C33_Witness ==
  /\ binding.calls = MAX_PORT_RETRIES
  /\ \A i \in 1..Len(binding.errors) : AddressInUse(binding.errors[i])
  /\ binding.thrown = "exhausted"


\* The routes that look for a web search tool in the request.
WebSearchRoutes == {"passthrough", "messages", "chat", "count_tokens"}

\* C34: a request of the messages, chat-completions or count_tokens route that
\* lists a web_search tool goes upstream without any web_search tool, whether
\* the search succeeded, failed or was skipped.
C34_WebSearchNeverForwarded ==
  (/\ stage = "called"
   /\ route \in WebSearchRoutes
   /\ HasWebSearchTool(payload)) => ~HasWebSearchTool(forwarded)

\* The calls that go upstream.
UpstreamCalls ==
  {"searchWeb", "createMessages", "createChatCompletions", "createResponses",
   "countTokens"}

\* The places of a call among those the handler has made.
PlacesOf(call) == {i \in 1..Len(performed) : performed[i] = call}

UpstreamPlaces == {i \in 1..Len(performed) : performed[i] \in UpstreamCalls}

\* C35: the rate-limit check of a request comes before its approval prompt,
\* the prompt before every upstream call, and a request whose approval was
\* rejected has made no upstream call.
C35_LimitThenApprovalThenUpstream ==
  /\ \A i \in PlacesOf("checkRateLimit"), j \in PlacesOf("awaitApproval") : i < j
  /\ \A i \in PlacesOf("awaitApproval"), j \in UpstreamPlaces : i < j
  /\ stage = "denied" => UpstreamPlaces = {}

\* The messages request has gone to the backend.
MessagesSent == route = "passthrough" /\ stage = "called"

====
